---- MODULE Spec2Model ----
(***************************************************************************)
(* A model of the log-format compiler and row-extraction engine of lars:   *)
(* lars.apache.ApacheSource and lars.iis.IISSource.                        *)
(*                                                                         *)
(* Text (format strings, log lines, field names) is modelled as sequences  *)
(* of one-character strings, so that the regular expressions and parsers   *)
(* of the source are computed character by character as Python computes    *)
(* them.                                                                   *)
(***************************************************************************)
EXTENDS Integers, Sequences, FiniteSets, TLC

(***************************************************************************)
(* Characters                                                              *)
(***************************************************************************)
Digits == {"0","1","2","3","4","5","6","7","8","9"}

LowerLetters ==
    {"a","b","c","d","e","f","g","h","i","j","k","l","m",
     "n","o","p","q","r","s","t","u","v","w","x","y","z"}

UpperLetters ==
    {"A","B","C","D","E","F","G","H","I","J","K","L","M",
     "N","O","P","Q","R","S","T","U","V","W","X","Y","Z"}

Letters == LowerLetters \cup UpperLetters

HexDigits == Digits \cup {"a","b","c","d","e","f","A","B","C","D","E","F"}

\* \s of the re module (the characters the model's texts can hold)
Whitespace == {" ", "\t", "\n", "\r", "\f"}

\* [\x00-\x1f\x7f] restricted to the characters the model's texts can hold
ControlChars == {"\t", "\n", "\r", "\f"}

UpperSeq == <<"A","B","C","D","E","F","G","H","I","J","K","L","M","N","O","P","Q","R","S","T","U","V","W","X","Y","Z">>
LowerSeq == <<"a","b","c","d","e","f","g","h","i","j","k","l","m","n","o","p","q","r","s","t","u","v","w","x","y","z">>

\* str.lower() on one character
LowerChar(c) ==
    IF c \in UpperLetters
    THEN LowerSeq[CHOOSE k \in 1..26 : UpperSeq[k] = c]
    ELSE c

\* str.lower()
Lower(s) == [k \in 1..Len(s) |-> LowerChar(s[k])]

DigitValue(c) ==
    CASE c = "0" -> 0 [] c = "1" -> 1 [] c = "2" -> 2 [] c = "3" -> 3
      [] c = "4" -> 4 [] c = "5" -> 5 [] c = "6" -> 6 [] c = "7" -> 7
      [] c = "8" -> 8 [] c = "9" -> 9

\* s[i:j] of Python with 0 <= i <= j <= len(s)
Slice(s, i, j) == [k \in 1..(j - i) |-> s[i + k]]

\* str.rstrip()
RECURSIVE Rstrip(_)
Rstrip(s) ==
    IF Len(s) > 0 /\ s[Len(s)] \in Whitespace
    THEN Rstrip(Slice(s, 0, Len(s) - 1))
    ELSE s

\* str.startswith(p)
StartsWith(s, p) == Len(s) >= Len(p) /\ Slice(s, 0, Len(p)) = p

\* x in seq
InSeq(x, seq) == \E k \in 1..Len(seq) : seq[k] = x

(***************************************************************************)
(* Regular expressions, matched as Python's re module matches them: a      *)
(* backtracking search that tries alternatives left to right and greedy    *)
(* repetitions longest first.  A pattern is a tree of records; Ends gives  *)
(* the end positions of the matches of a pattern that start at position i  *)
(* (positions count the characters before them), in the order in which     *)
(* the backtracking search reaches them.                                   *)
(***************************************************************************)
Chr(S)  == [op |-> "set", cs |-> S]          \* [...]
NotChr(S) == [op |-> "nset", cs |-> S]       \* [^...]
Cat(rs) == [op |-> "cat", rs |-> rs]         \* r1 r2 ...
Alt(rs) == [op |-> "alt", rs |-> rs]         \* r1|r2|...
Rep(r, lo, hi) == [op |-> "rep", r |-> r, lo |-> lo, hi |-> hi]  \* r{lo,hi}
Star(r) == [op |-> "star", r |-> r]          \* r*
Plus(r) == Cat(<<r, Star(r)>>)               \* r+
Opt(r)  == Rep(r, 0, 1)                      \* r?
Lit(s)  == [op |-> "lit", s |-> s]           \* literal text
Bol     == [op |-> "bol"]                    \* ^
Eol     == [op |-> "eol"]                    \* $

\* one character against a character class, under re.IGNORECASE when ic
CharIn(c, S, ic) ==
    \/ c \in S
    \/ ic /\ \E d \in S : LowerChar(d) = LowerChar(c)

LitAt(s, i, t, ic) ==
    /\ i + Len(t) <= Len(s)
    /\ \A k \in 1..Len(t) :
          IF ic THEN LowerChar(s[i + k]) = LowerChar(t[k]) ELSE s[i + k] = t[k]

\* a then the elements of b that a does not hold
Merge(a, b) == a \o SelectSeq(b, LAMBDA x : ~InSeq(x, a))

RECURSIVE Ends(_, _, _, _)
RECURSIVE EndsCat(_, _, _, _, _)
RECURSIVE EndsAlt(_, _, _, _, _)
RECURSIVE EndsRep(_, _, _, _, _, _)
RECURSIVE EndsStar(_, _, _, _)
RECURSIVE EndsCatFrom(_, _, _, _, _, _)
RECURSIVE EndsRepFrom(_, _, _, _, _, _, _)
RECURSIVE EndsStarFrom(_, _, _, _, _)

Ends(r, s, i, ic) ==
    CASE r.op = "set"  ->
            IF i < Len(s) /\ CharIn(s[i + 1], r.cs, ic) THEN <<i + 1>> ELSE << >>
      [] r.op = "nset" ->
            IF i < Len(s) /\ ~CharIn(s[i + 1], r.cs, ic) THEN <<i + 1>> ELSE << >>
      [] r.op = "lit"  ->
            IF LitAt(s, i, r.s, ic) THEN <<i + Len(r.s)>> ELSE << >>
      [] r.op = "bol"  -> IF i = 0 THEN <<i>> ELSE << >>
      [] r.op = "eol"  ->
            IF i = Len(s) \/ (i = Len(s) - 1 /\ s[Len(s)] = "\n")
            THEN <<i>> ELSE << >>
      [] r.op = "cat"  -> EndsCat(r.rs, 1, s, i, ic)
      [] r.op = "alt"  -> EndsAlt(r.rs, 1, s, i, ic)
      [] r.op = "rep"  -> EndsRep(r.r, r.lo, r.hi, s, i, ic)
      [] r.op = "star" -> EndsStar(r.r, s, i, ic)

\* rs[k], rs[k+1], ... in sequence, from position i
EndsCat(rs, k, s, i, ic) ==
    IF k > Len(rs) THEN <<i>>
    ELSE EndsCatFrom(rs, k, s, Ends(rs[k], s, i, ic), 1, ic)

\* the continuations of the matches es[j], es[j+1], ... of rs[k]
EndsCatFrom(rs, k, s, es, j, ic) ==
    IF j > Len(es) THEN << >>
    ELSE Merge(EndsCat(rs, k + 1, s, es[j], ic),
               EndsCatFrom(rs, k, s, es, j + 1, ic))

EndsAlt(rs, k, s, i, ic) ==
    IF k > Len(rs) THEN << >>
    ELSE Merge(Ends(rs[k], s, i, ic), EndsAlt(rs, k + 1, s, i, ic))

\* r{lo,hi}, greedy: one more r first, then (if lo allows) none
EndsRep(r, lo, hi, s, i, ic) ==
    IF hi = 0 THEN <<i>>
    ELSE Merge(EndsRepFrom(r, lo, hi, s, Ends(r, s, i, ic), 1, ic),
               IF lo = 0 THEN <<i>> ELSE << >>)

EndsRepFrom(r, lo, hi, s, es, j, ic) ==
    IF j > Len(es) THEN << >>
    ELSE Merge(EndsRep(r, IF lo > 0 THEN lo - 1 ELSE 0, hi - 1, s, es[j], ic),
               EndsRepFrom(r, lo, hi, s, es, j + 1, ic))

\* r*, greedy; an iteration that matches the empty string ends the loop
EndsStar(r, s, i, ic) ==
    Merge(EndsStarFrom(r, s, SelectSeq(Ends(r, s, i, ic), LAMBDA e : e > i), 1, ic),
          <<i>>)

EndsStarFrom(r, s, es, j, ic) ==
    IF j > Len(es) THEN << >>
    ELSE Merge(EndsStar(r, s, es[j], ic), EndsStarFrom(r, s, es, j + 1, ic))

\* regex.match(s): the end of the first match at position 0, or -1
MatchEnd(r, s, ic) ==
    LET es == Ends(r, s, 0, ic) IN IF es = << >> THEN -1 ELSE es[1]

\* regex.match(s) is not None
Matches(r, s, ic) == Ends(r, s, 0, ic) # << >>

\* regex.match(s) for a pattern that is a sequence of parts: the end
\* position of each part in the first match the search finds, or ok = FALSE
RECURSIVE MatchParts(_, _, _, _, _)
RECURSIVE MatchPartsFrom(_, _, _, _, _, _)
MatchParts(parts, k, s, i, ic) ==
    IF k > Len(parts) THEN [ok |-> TRUE, b |-> << >>]
    ELSE MatchPartsFrom(parts, k, s, Ends(parts[k], s, i, ic), 1, ic)

MatchPartsFrom(parts, k, s, es, j, ic) ==
    IF j > Len(es) THEN [ok |-> FALSE, b |-> << >>]
    ELSE LET rest == MatchParts(parts, k + 1, s, es[j], ic)
         IN  IF rest.ok THEN [ok |-> TRUE, b |-> <<es[j]>> \o rest.b]
             ELSE MatchPartsFrom(parts, k, s, es, j + 1, ic)

\* the text that part k of a match matched (match.group of that part)
PartText(s, b, k) == Slice(s, IF k = 1 THEN 0 ELSE b[k - 1], b[k])

(***************************************************************************)
(* Python values                                                           *)
(***************************************************************************)
\* None where a text is expected (no text holds a many-character element)
None == <<"None">>

\* the truth value of a text or None
Truthy(x) == x # None /\ x # << >>

\* exceptions: the class, the message, and for LarsError the line context
NoExc == [type |-> "", msg |-> "", line_number |-> 0, line |-> None]
Exc(type, msg) == [type |-> type, msg |-> msg, line_number |-> 0, line |-> None]

PyKeywords ==
    { <<"F","a","l","s","e">>, <<"N","o","n","e">>, <<"T","r","u","e">>, <<"a","n","d">>, <<"a","s">>, <<"a","s","s","e","r","t">>, <<"a","s","y","n","c">>,
      <<"a","w","a","i","t">>, <<"b","r","e","a","k">>, <<"c","l","a","s","s">>, <<"c","o","n","t","i","n","u","e">>, <<"d","e","f">>, <<"d","e","l">>,
      <<"e","l","i","f">>, <<"e","l","s","e">>, <<"e","x","c","e","p","t">>, <<"f","i","n","a","l","l","y">>, <<"f","o","r">>, <<"f","r","o","m">>,
      <<"g","l","o","b","a","l">>, <<"i","f">>, <<"i","m","p","o","r","t">>, <<"i","n">>, <<"i","s">>, <<"l","a","m","b","d","a">>,
      <<"n","o","n","l","o","c","a","l">>, <<"n","o","t">>, <<"o","r">>, <<"p","a","s","s">>, <<"r","a","i","s","e">>, <<"r","e","t","u","r","n">>,
      <<"t","r","y">>, <<"w","h","i","l","e">>, <<"w","i","t","h">>, <<"y","i","e","l","d">> }

IdentStart == Letters \cup {"_"}
IdentChars == Letters \cup Digits \cup {"_"}

\* sanitize_name: the first character, then the rest with each run of
\* characters that an identifier cannot hold replaced by one underscore
RECURSIVE SanitizeRest(_, _)
SanitizeRest(s, k) ==
    IF k > Len(s) THEN << >>
    ELSE IF s[k] \in IdentChars THEN <<s[k]>> \o SanitizeRest(s, k + 1)
    ELSE IF k > 2 /\ s[k - 1] \notin IdentChars THEN SanitizeRest(s, k + 1)
    ELSE <<"_">> \o SanitizeRest(s, k + 1)

sanitize_name(name) ==
    <<IF name[1] \in IdentStart THEN name[1] ELSE "_">> \o SanitizeRest(name, 2)

\* dt.row(*names): collections.namedtuple rejects a field name that is not
\* a text, is a keyword, starts with an underscore or is repeated
row(names) ==
    IF \E k \in 1..Len(names) : names[k] = None
        THEN Exc("ValueError", "field name is a keyword")
    ELSE IF \E k \in 1..Len(names) : names[k] \in PyKeywords
        THEN Exc("ValueError", "field name is a keyword")
    ELSE IF \E k \in 1..Len(names) : names[k][1] = "_"
        THEN Exc("ValueError", "field name starts with an underscore")
    ELSE IF \E j, k \in 1..Len(names) : j < k /\ names[j] = names[k]
        THEN Exc("ValueError", "duplicate field name")
    ELSE NoExc

\* re.compile of a row pattern: a group name may be defined only once
CompileError(names) ==
    IF \E j, k \in 1..Len(names) : j < k /\ names[j] = names[k]
    THEN Exc("re.error", "redefinition of group name")
    ELSE NoExc

\* ','.join(names)
JoinError(names) ==
    IF \E k \in 1..Len(names) : names[k] = None
    THEN Exc("TypeError", "sequence item: expected str instance")
    ELSE NoExc

(***************************************************************************)
(* lars.parsers: the patterns of the field types                           *)
(***************************************************************************)
D == Chr(Digits)
Dash == Lit(<<"-">>)

\* _URL
URL_RE ==
    Cat(<< Opt(Cat(<<Plus(NotChr({":", "/", "?", "#"} \cup Whitespace)), Lit(<<":">>)>>)),
           Opt(Cat(<<Lit(<<"/","/">>), Star(NotChr({"/", "?", "#"} \cup Whitespace))>>)),
           Star(NotChr({"?", "#"} \cup Whitespace)),
           Opt(Cat(<<Lit(<<"?">>), Star(NotChr({"#"} \cup Whitespace))>>)),
           Opt(Cat(<<Lit(<<"#">>), Star(NotChr(Whitespace))>>)) >>)

\* _PATH
PATH_RE == Star(NotChr(ControlChars))

\* _METHOD
METHOD_RE ==
    Plus(NotChr(ControlChars \cup
                {"(", ")", "{", "}", "<", ">", "[", "]", "@", ",", ";", ":",
                 "\\", "\"", "/", "?", "=", " ", "\t"}))

\* _PROTOCOL
PROTOCOL_RE == Cat(<<Lit(<<"H","T","T","P","/">>), Plus(D), Lit(<<".">>), Plus(D)>>)

INTEGER == Alt(<<Dash, Plus(D)>>)
FIXED == Alt(<<Dash, Cat(<<Plus(D), Opt(Cat(<<Lit(<<".">>), Star(D)>>))>>)>>)
DATE_ISO ==
    Alt(<<Dash, Cat(<<Rep(D, 4, 4), Dash, Rep(D, 2, 2), Dash, Rep(D, 2, 2)>>)>>)
TIME_ISO ==
    Alt(<<Dash, Cat(<<Rep(D, 2, 2), Lit(<<":">>), Rep(D, 2, 2), Lit(<<":">>),
                      Rep(D, 2, 2)>>)>>)
URL == Alt(<<URL_RE, Dash>>)
PATH == Alt(<<PATH_RE, Dash>>)
METHOD == Alt(<<METHOD_RE, Dash>>)
PROTOCOL == Alt(<<PROTOCOL_RE, Dash>>)
REQUEST ==
    Alt(<<Cat(<<METHOD_RE, Lit(<<" ">>), URL_RE, Lit(<<" ">>), PROTOCOL_RE>>), Dash>>)
HOSTNAME == Alt(<<Dash, Plus(Chr(Letters \cup Digits \cup {":", ".", "-"}))>>)
ADDRESS ==
    Alt(<<Dash,
          Cat(<<Plus(D), Rep(Cat(<<Lit(<<".">>), Plus(D)>>), 3, 3)>>),
          Plus(Chr(HexDigits \cup {":"}))>>)
ADDRESS_PORT ==
    Alt(<<Dash,
          Cat(<<Alt(<<Cat(<<Plus(D), Rep(Cat(<<Lit(<<".">>), Plus(D)>>), 3, 3)>>),
                      Cat(<<Lit(<<"[">>), Plus(Chr(HexDigits \cup {":"})),
                            Lit(<<"]">>)>>)>>),
                Opt(Cat(<<Lit(<<":">>), Rep(D, 1, 5)>>))>>)>>)

(***************************************************************************)
(* lars.apache: the patterns of ApacheSource.TYPES and _generate_parser    *)
(***************************************************************************)
APACHE_URL_STEM ==
    Cat(<< Opt(Cat(<<Plus(NotChr({":", "/", "?", "#"} \cup Whitespace)), Lit(<<":">>)>>)),
           Opt(Cat(<<Lit(<<"/","/">>), Star(NotChr({"/", "?", "#"} \cup Whitespace))>>)),
           Star(NotChr({"?", "#"} \cup Whitespace)) >>)

APACHE_URL_QUERY ==
    Cat(<< Opt(Cat(<<Lit(<<"?">>), Star(NotChr({"#"} \cup Whitespace))>>)),
           Opt(Cat(<<Lit(<<"#">>), Star(NotChr(Whitespace))>>)) >>)

APACHE_STRING ==
    Alt(<< Star(Alt(<< NotChr(ControlChars \cup {"\\", "\""}),
                       Cat(<<Lit(<<"\\","x">>), Rep(Chr(HexDigits), 2, 2)>>),
                       Cat(<<Lit(<<"\\">>), NotChr({"x"})>>) >>)),
           Dash >>)

APACHE_KEEPALIVE == Chr({"X", "+", "-"})

\* the hard-coded pattern of the default %t
APACHE_TIME_COMMON ==
    Cat(<< Lit(<<"[">>),
           Alt(<< Cat(<<Lit(<<"3">>), Chr({"0", "1"})>>),
                  Cat(<<Chr({"1", "2"}), D>>),
                  Cat(<<Lit(<<"0">>), Chr(Digits \ {"0"})>>),
                  Chr(Digits \ {"0"}),
                  Cat(<<Lit(<<" ">>), Chr(Digits \ {"0"})>>) >>),
           Lit(<<"/">>),
           Alt(<< Lit(<<"j","a","n">>), Lit(<<"f","e","b">>), Cat(<<Lit(<<"m","a">>), Chr({"r", "y"})>>),
                  Lit(<<"a","p","r">>), Cat(<<Lit(<<"j","u">>), Chr({"n", "l"})>>), Lit(<<"a","u","g">>),
                  Lit(<<"s","e","p">>), Lit(<<"o","c","t">>), Lit(<<"n","o","v">>), Lit(<<"d","e","c">>) >>),
           Lit(<<"/">>),
           Rep(D, 4, 4),
           Lit(<<":">>),
           Alt(<< Cat(<<Lit(<<"2">>), Chr({"0", "1", "2", "3"})>>),
                  Cat(<<Chr({"0", "1"}), D>>), D >>),
           Lit(<<":">>),
           Alt(<< Cat(<<Chr({"0", "1", "2", "3", "4", "5"}), D>>), D >>),
           Lit(<<":">>),
           Alt(<< Cat(<<Lit(<<"6">>), Chr({"0", "1"})>>),
                  Cat(<<Chr({"0", "1", "2", "3", "4", "5"}), D>>), D >>),
           Plus(Chr(Whitespace)),
           Cat(<<Chr({"+", "-"}), D, D, Chr({"0", "1", "2", "3", "4", "5"}), D>>),
           Lit(<<"]">>) >>)

(***************************************************************************)
(* lars.apache: compiling a LogFormat string                               *)
(***************************************************************************)
COMMON == <<"%","h"," ","%","l"," ","%","u"," ","%","t"," ","\"","%","r","\""," ","%",">","s"," ","%","b">>
COMMON_VHOST == <<"%","v"," ","%","h"," ","%","l"," ","%","u"," ","%","t"," ","\"","%","r","\""," ","%",">","s"," ","%","b">>
COMBINED == <<"%","h"," ","%","l"," ","%","u"," ","%","t"," ","\"","%","r","\""," ","%",">","s"," ","%","b"," ","\"","%","{","R","e","f","e","r","e","r","}","i","\""," ","\"","%","{","U","s","e","r","-","a","g","e","n","t","}","i","\"">>
REFERER == <<"%","{","R","e","f","e","r","e","r","}"," ","-",">"," ","%","U">>
USER_AGENT == <<"%","{","U","s","e","r","-","a","g","e","n","t","}","i">>

\* the optional status code filter:  (?:!?\d{3}(?:,\d{3})*)?
StatusFilter ==
    Opt(Cat(<<Opt(Lit(<<"!">>)), Rep(D, 3, 3),
              Star(Cat(<<Lit(<<",">>), Rep(D, 3, 3)>>))>>))

\* the optional {field}:  (\{[^}]*\})?
BracedField == Opt(Cat(<<Lit(<<"{">>), Star(NotChr({"}"})), Lit(<<"}">>)>>))

FIELD_RE1 ==
    Cat(<<Lit(<<"%">>), StatusFilter, Opt(Chr({"<", ">"})), BracedField,
          Chr(Letters)>>)

\* a variant of FIELD_RE2 without the optional '<' or '>'
FIELD_RE2_Unmodified ==
    << Cat(<<Bol, Lit(<<"%">>), StatusFilter>>),
       BracedField,
       Chr(Letters),
       Eol >>

\* the parts of FIELD_RE2: the ignored prefix, field, suffix, the anchor
FIELD_RE2 ==
    << Cat(<<Bol, Lit(<<"%">>), StatusFilter, Opt(Chr({"<", ">"}))>>),
       BracedField,
       Chr(Letters),
       Eol >>

\* FIELD_RE1.split(s) from position i, the text since position from being
\* the separator under way: [separator, field, separator, ..., separator]
RECURSIVE Split1(_, _, _)
Split1(s, from, i) ==
    IF i >= Len(s) THEN <<Slice(s, from, Len(s))>>
    ELSE LET es == Ends(FIELD_RE1, s, i, FALSE)
         IN  IF es = << >> THEN Split1(s, from, i + 1)
             ELSE <<Slice(s, from, i), Slice(s, i, es[1])>> \o Split1(s, es[1], es[1])

FIELD_DEFS ==
    [ a |-> <<<<"r","e","m","o","t","e","_","i","p">>, "address">>,
      A |-> <<<<"l","o","c","a","l","_","i","p">>, "address">>,
      B |-> <<<<"s","i","z","e">>, "integer">>,
      b |-> <<<<"s","i","z","e">>, "integer">>,
      C |-> <<<<"c","o","o","k","i","e","_","%","s">>, "string">>,
      D |-> <<<<"t","i","m","e","_","t","a","k","e","n","_","m","s">>, "integer">>,
      e |-> <<<<"e","n","v","_","%","s">>, "string">>,
      f |-> <<<<"f","i","l","e","n","a","m","e">>, "path">>,
      h |-> <<<<"r","e","m","o","t","e","_","h","o","s","t">>, "hostname">>,
      H |-> <<<<"p","r","o","t","o","c","o","l">>, "protocol">>,
      i |-> <<<<"r","e","q","_","%","s">>, "string">>,
      k |-> <<<<"k","e","e","p","a","l","i","v","e">>, "integer">>,
      l |-> <<<<"i","d","e","n","t">>, "string">>,
      m |-> <<<<"m","e","t","h","o","d">>, "method">>,
      n |-> <<<<"n","o","t","e","_","%","s">>, "string">>,
      o |-> <<<<"r","e","s","p","_","%","s">>, "string">>,
      p |-> <<<<"p","o","r","t">>, "integer">>,
      P |-> <<<<"p","i","d">>, "integer">>,
      q |-> <<<<"u","r","l","_","q","u","e","r","y">>, "url-query">>,
      r |-> <<<<"r","e","q","u","e","s","t">>, "request">>,
      R |-> <<<<"h","a","n","d","l","e","r">>, "string">>,
      s |-> <<<<"s","t","a","t","u","s">>, "integer">>,
      t |-> <<<<"t","i","m","e">>, "time">>,
      T |-> <<<<"t","i","m","e","_","t","a","k","e","n">>, "integer">>,
      u |-> <<<<"r","e","m","o","t","e","_","u","s","e","r">>, "string">>,
      U |-> <<<<"u","r","l","_","s","t","e","m">>, "url-stem">>,
      v |-> <<<<"s","e","r","v","e","r","_","n","a","m","e">>, "hostname">>,
      V |-> <<<<"c","a","n","o","n","i","c","a","l","_","n","a","m","e">>, "hostname">>,
      X |-> <<<<"c","o","n","n","e","c","t","i","o","n","_","s","t","a","t","u","s">>, "keepalive">>,
      I |-> <<<<"b","y","t","e","s","_","r","e","c","e","i","v","e","d">>, "integer">>,
      O |-> <<<<"b","y","t","e","s","_","s","e","n","t">>, "integer">> ]

\* ApacheSource.TYPES: the parser and the pattern of each field type; the
\* parser None stands for the identity function, and the time type is made
\* up in _generate_parser
APACHE_TYPES ==
    [ address   |-> <<"address_parse", "ADDRESS">>,
      path      |-> <<"path_parse", "PATH">>,
      hostname  |-> <<"hostname_parse", "HOSTNAME">>,
      integer   |-> <<"int_parse", "INTEGER">>,
      method    |-> <<"identity", "METHOD">>,
      protocol  |-> <<"identity", "PROTOCOL">>,
      request   |-> <<"request_parse", "REQUEST">>,
      url       |-> <<"url_parse", "URL">>,
      string    |-> <<"apache_string_parse", "APACHE_STRING">>,
      keepalive |-> <<"identity", "APACHE_KEEPALIVE">> ]
    @@ ("url-stem" :> <<"url_parse", "APACHE_URL_STEM">>)
    @@ ("url-query" :> <<"url_parse", "APACHE_URL_QUERY">>)

\* template % value, for a template that ends with %s
Subst(template, value) == Slice(template, 0, Len(template) - 2) \o value

PortNames ==
    [canonical |-> <<"p","o","r","t">>, local |-> <<"l","o","c","a","l","_","p","o","r","t">>, remote |-> <<"r","e","m","o","t","e","_","p","o","r","t">>]
PortKeys == [canonical |-> <<"c","a","n","o","n","i","c","a","l">>, local |-> <<"l","o","c","a","l">>, remote |-> <<"r","e","m","o","t","e">>]
PidNames == [pid |-> <<"p","i","d">>, tid |-> <<"t","i","d">>, hextid |-> <<"h","e","x","t","i","d">>]
PidKeys == [pid |-> <<"p","i","d">>, tid |-> <<"t","i","d">>, hextid |-> <<"h","e","x","t","i","d">>]

\* {...}[data] for a table whose keys are spelled out in keys
Lookup(names, keys, data) ==
    IF \E k \in DOMAIN keys : keys[k] = data
    THEN [exc |-> NoExc, name |-> names[CHOOSE k \in DOMAIN keys : keys[k] = data]]
    ELSE [exc |-> Exc("ValueError", "Invalid format in"), name |-> None]

\* a variant of _generate_name that gives a port or an id that there is
\* not the name of the bare field (as {...}.get(data, template) would)
_generate_name_default(template, data, suffix) ==
    IF suffix \in {"C", "e", "i", "n", "o"} THEN
        IF ~Truthy(data)
        THEN [exc |-> Exc("ValueError", "Missing {str} for format suffix"),
              name |-> None]
        ELSE [exc |-> NoExc, name |-> Subst(template, sanitize_name(data))]
    ELSE IF suffix = "p" /\ Truthy(data) THEN
        IF Lookup(PortNames, PortKeys, data).exc = NoExc
        THEN Lookup(PortNames, PortKeys, data)
        ELSE [exc |-> NoExc, name |-> template]
    ELSE IF suffix = "P" /\ Truthy(data) THEN
        IF Lookup(PidNames, PidKeys, data).exc = NoExc
        THEN Lookup(PidNames, PidKeys, data)
        ELSE [exc |-> NoExc, name |-> template]
    ELSE [exc |-> NoExc, name |-> IF suffix \in {"p", "P"} THEN None ELSE template]

\* _generate_name(template, data, suffix): the field name, or the error
_generate_name(template, data, suffix) ==
    IF suffix \in {"C", "e", "i", "n", "o"} THEN
        IF ~Truthy(data)
        THEN [exc |-> Exc("ValueError", "Missing {str} for format suffix"),
              name |-> None]
        ELSE [exc |-> NoExc, name |-> Subst(template, sanitize_name(data))]
    ELSE IF suffix = "p" THEN
        IF Truthy(data) THEN Lookup(PortNames, PortKeys, data)
        ELSE [exc |-> NoExc, name |-> None]
    ELSE IF suffix = "P" THEN
        IF Truthy(data) THEN Lookup(PidNames, PidKeys, data)
        ELSE [exc |-> NoExc, name |-> None]
    ELSE [exc |-> NoExc, name |-> template]

\* the directives that TimeRE (lars.strptime) knows
TimeDirectives ==
    {"a", "A", "b", "B", "c", "d", "f", "H", "I", "j", "m", "M", "p", "S",
     "U", "w", "W", "x", "X", "y", "Y", "z", "Z", "%"}

\* TimeRE().pattern(fmt): the error it raises, scanning fmt from position k
RECURSIVE TimeREError(_, _)
TimeREError(fmt, k) ==
    IF k > Len(fmt) THEN NoExc
    ELSE IF fmt[k] # "%" THEN TimeREError(fmt, k + 1)
    ELSE IF k = Len(fmt) THEN Exc("IndexError", "string index out of range")
    ELSE IF fmt[k + 1] \notin TimeDirectives THEN Exc("KeyError", fmt[k + 1])
    ELSE TimeREError(fmt, k + 2)

\* one part of a compiled row pattern: literal text, or the named group of
\* a field with the pattern re (and the time format fmt of a %{fmt}t)
LitPart(text) ==
    [kind |-> "lit", text |-> text, name |-> << >>, re |-> "", fmt |-> << >>]
FieldPart(name, re, fmt) ==
    [kind |-> "field", text |-> << >>, name |-> name, re |-> re, fmt |-> fmt]

\* _generate_parser(data, field_type, field_name)
_generate_parser(data, field_type, field_name) ==
    IF field_type = "time" THEN
        IF Truthy(data) THEN
            IF TimeREError(data, 1).type = "KeyError"
            THEN [exc |-> Exc("ValueError", "Invalid time format spec"),
                  part |-> LitPart(<< >>), parser |-> ""]
            ELSE [exc |-> TimeREError(data, 1),
                  part |-> FieldPart(field_name, "TIME_FORMAT", data),
                  parser |-> "_time_parse_format"]
        ELSE [exc |-> NoExc,
              part |-> FieldPart(field_name, "APACHE_TIME_COMMON", << >>),
              parser |-> "_time_parse_common"]
    ELSE IF field_type = "string"
            /\ Lower(field_name) \in {<<"r","e","q","_","r","e","f","e","r","e","r">>, <<"r","e","q","_","r","e","f","e","r","r","e","r">>} THEN
        [exc |-> NoExc, part |-> FieldPart(field_name, "URL", << >>),
         parser |-> "url_parse"]
    ELSE
        [exc |-> NoExc,
         part |-> FieldPart(field_name, APACHE_TYPES[field_type][2], << >>),
         parser |-> APACHE_TYPES[field_type][1]]

\* data[1:-1]
StripBraces(data) == Slice(data, 1, Len(data) - 1)

\* the field whose name was generated: its pattern and parser
NamedField(data, field_type, name) ==
    IF name.exc # NoExc
    THEN [exc |-> name.exc, part |-> LitPart(<< >>), parser |-> ""]
    ELSE _generate_parser(data, field_type, name.name)

\* _parse_log_field(s) after the match m of FIELD_RE2
MatchedField(s, m) ==
    LET field == PartText(s, m.b, 2)
        suffix == PartText(s, m.b, 3)[1]
        \* an optional group that took no part in the match gives None
        data == IF field = << >> THEN None ELSE StripBraces(field)
    IN  IF ~m.ok THEN
            [exc |-> Exc("RuntimeError", "Internal error: FIELD_RE2"),
             part |-> LitPart(<< >>), parser |-> ""]
        ELSE IF suffix \notin DOMAIN FIELD_DEFS THEN
            [exc |-> Exc("ValueError", "Invalid format suffix"),
             part |-> LitPart(<< >>), parser |-> ""]
        ELSE NamedField(data, FIELD_DEFS[suffix][2],
                        _generate_name(FIELD_DEFS[suffix][1], data, suffix))

\* _parse_log_field(s) for one %{field}s specification of a LogFormat string
_parse_log_field(s) == MatchedField(s, MatchParts(FIELD_RE2, 1, s, 0, FALSE))

\* the name of each field of a row pattern, in order
RECURSIVE PartNames(_)
PartNames(parts) ==
    IF parts = << >> THEN << >>
    ELSE (IF parts[1].kind = "field" THEN <<parts[1].name>> ELSE << >>)
         \o PartNames(Tail(parts))

\* '%s' % name
StrOf(name) == IF name = None THEN <<"N","o","n","e">> ELSE name

\* the pieces of FIELD_RE1.split from the k-th on, added to the row pattern
\* and the parser list found so far
RECURSIVE ParseLogPieces(_, _, _, _, _)
RECURSIVE AddField(_, _, _, _, _)

ParseLogPieces(pieces, k, separator, row_pattern, row_funcs) ==
    IF k > Len(pieces) THEN
        [exc |-> NoExc, row_pattern |-> row_pattern, row_funcs |-> row_funcs]
    ELSE IF pieces[k] = << >> THEN
        ParseLogPieces(pieces, k + 1, ~separator, row_pattern, row_funcs)
    ELSE IF separator THEN
        ParseLogPieces(pieces, k + 1, ~separator,
                       Append(row_pattern, LitPart(pieces[k])), row_funcs)
    ELSE AddField(pieces, k, row_pattern, row_funcs, _parse_log_field(pieces[k]))

\* a variant of AddField without the test for a name already in use
AddFieldUnchecked(pieces, k, row_pattern, row_funcs, f) ==
    IF f.exc # NoExc THEN
        [exc |-> f.exc, row_pattern |-> row_pattern, row_funcs |-> row_funcs]
    ELSE ParseLogPieces(pieces, k + 1, TRUE,
                        Append(row_pattern, f.part), Append(row_funcs, f.parser))

\* the field f that the k-th piece gave, added to the row pattern
AddField(pieces, k, row_pattern, row_funcs, f) ==
    IF f.exc # NoExc THEN
        [exc |-> f.exc, row_pattern |-> row_pattern, row_funcs |-> row_funcs]
    ELSE IF InSeq(f.part.name, PartNames(row_pattern)) THEN
        [exc |-> Exc("ValueError", "Duplicate row field name"),
         row_pattern |-> row_pattern, row_funcs |-> row_funcs]
    ELSE ParseLogPieces(pieces, k + 1, TRUE,
                        Append(row_pattern, f.part), Append(row_funcs, f.parser))

\* the first of the errors that is one
FirstExc(excs) ==
    IF \E k \in 1..Len(excs) : excs[k] # NoExc
    THEN excs[CHOOSE k \in 1..Len(excs) :
                 excs[k] # NoExc /\ \A j \in 1..(k - 1) : excs[j] = NoExc]
    ELSE NoExc

\* the end of _parse_log_format(): the row pattern is compiled and the row
\* type is made of the names of the fields
CompileFormat(r) ==
    LET tuple_fields == PartNames(r.row_pattern)
        exc == FirstExc(<< r.exc,
                           CompileError([k \in 1..Len(tuple_fields) |->
                                            StrOf(tuple_fields[k])]),
                           JoinError(tuple_fields),
                           row(tuple_fields) >>)
    IN  [exc |-> exc, row_pattern |-> r.row_pattern, row_funcs |-> r.row_funcs,
         row_type |-> tuple_fields]

\* _parse_log_format(): the compiled row pattern, the parsers and the
\* fields of the row type, or the error that construction raises
_parse_log_format(log_format) ==
    CompileFormat(ParseLogPieces(Split1(log_format, 0, 0), 1, TRUE, << >>, << >>))

(***************************************************************************)
(* The values that the parsers give, and the parsers                       *)
(***************************************************************************)
\* a value of a row: its Python type, and its number or its text
Val(t, n, v) == [t |-> t, n |-> n, v |-> v]
PyNone == Val("NoneType", 0, << >>)

\* the result of a call: the value, or the exception raised
Ok(val) == [exc |-> NoExc, val |-> val]
Raise(type, msg) == [exc |-> Exc(type, msg), val |-> PyNone]

\* the characters ' ' to '_' and 'a' to '~' in code order
AsciiLow ==
    << " ", "!", "\"", "#", "$", "%", "&", "'", "(", ")", "*", "+", ",",
       "-", ".", "/", "0", "1", "2", "3", "4", "5", "6", "7", "8", "9",
       ":", ";", "<", "=", ">", "?", "@", "A", "B", "C", "D", "E", "F",
       "G", "H", "I", "J", "K", "L", "M", "N", "O", "P", "Q", "R", "S",
       "T", "U", "V", "W", "X", "Y", "Z", "[", "\\", "]", "^", "_" >>

AsciiHigh ==
    << "a", "b", "c", "d", "e", "f", "g", "h", "i", "j", "k", "l", "m",
       "n", "o", "p", "q", "r", "s", "t", "u", "v", "w", "x", "y", "z",
       "{", "|", "}", "~" >>

\* chr(code), for the codes whose character the model's texts can hold
ChrOf(code) ==
    CASE code = 9 -> "\t" [] code = 10 -> "\n" [] code = 12 -> "\f"
      [] code = 13 -> "\r"
      [] code >= 32 /\ code <= 95 -> AsciiLow[code - 31]
      [] code >= 97 /\ code <= 126 -> AsciiHigh[code - 96]

HexValue(c) ==
    IF c \in Digits THEN DigitValue(c)
    ELSE CASE LowerChar(c) = "a" -> 10 [] LowerChar(c) = "b" -> 11
           [] LowerChar(c) = "c" -> 12 [] LowerChar(c) = "d" -> 13
           [] LowerChar(c) = "e" -> 14 [] LowerChar(c) = "f" -> 15

AllDigits(s) == s # << >> /\ \A k \in 1..Len(s) : s[k] \in Digits

\* int(s) for a text of decimal digits
RECURSIVE IntOf(_)
IntOf(s) ==
    IF s = << >> THEN 0
    ELSE 10 * IntOf(Slice(s, 0, Len(s) - 1)) + DigitValue(s[Len(s)])

\* s.split(sep) for a one-character separator
RECURSIVE SplitOn(_, _)
SplitOn(s, sep) ==
    IF \E k \in 1..Len(s) : s[k] = sep
    THEN LET k == CHOOSE k \in 1..Len(s) :
                     s[k] = sep /\ \A j \in 1..(k - 1) : s[j] # sep
         IN  <<Slice(s, 0, k - 1)>> \o SplitOn(Slice(s, k, Len(s)), sep)
    ELSE <<s>>

\* the position of the last sep in s, or 0
LastIndex(s, sep) ==
    IF \E k \in 1..Len(s) : s[k] = sep
    THEN CHOOSE k \in 1..Len(s) : s[k] = sep /\ \A j \in (k + 1)..Len(s) : s[j] # sep
    ELSE 0

\* int_parse
int_parse(s) ==
    IF s = <<"-">> THEN Ok(PyNone)
    ELSE IF AllDigits(s) THEN Ok(Val("int", IntOf(s), << >>))
    ELSE Raise("ValueError", "invalid literal for int()")

\* fixed_parse
fixed_parse(s) ==
    IF s = <<"-">> THEN Ok(PyNone)
    ELSE LET p == SplitOn(s, ".")
         IN  IF Len(p) <= 2 /\ AllDigits(p[1])
                /\ (Len(p) = 2 => p[2] = << >> \/ AllDigits(p[2]))
             THEN Ok(Val("float", 0, s))
             ELSE Raise("ValueError", "could not convert string to float")

\* ipaddress.IPv4Address(s) accepts s
IsIPv4(s) ==
    LET p == SplitOn(s, ".")
    IN  /\ Len(p) = 4
        /\ \A k \in 1..4 :
              /\ AllDigits(p[k])
              /\ Len(p[k]) <= 3
              /\ IntOf(p[k]) <= 255
              /\ (Len(p[k]) > 1 => p[k][1] # "0")

IsHextet(s) == Len(s) \in 1..4 /\ \A k \in 1..Len(s) : s[k] \in HexDigits

\* ipaddress.IPv6Address(s) accepts s (addresses without an embedded IPv4
\* address or a zone)
IsIPv6(s) ==
    LET p == SplitOn(s, ":")
        n == Len(p)
        skips == {k \in 2..(n - 1) : p[k] = << >>}
    IN  /\ n >= 3
        /\ n <= 9
        /\ Cardinality(skips) <= 1
        /\ IF skips # {}
           THEN LET k == CHOOSE k \in skips : TRUE
                    hi == IF p[1] = << >> THEN k - 2 ELSE k - 1
                    lo == IF p[n] = << >> THEN n - k - 1 ELSE n - k
                IN  /\ p[1] = << >> => hi = 0
                    /\ p[n] = << >> => lo = 0
                    /\ hi + lo <= 7
                    /\ \A j \in 1..n :
                          \/ j = k
                          \/ j \in {1, n} /\ p[j] = << >>
                          \/ IsHextet(p[j])
           ELSE n = 8 /\ \A j \in 1..n : IsHextet(p[j])

\* Hostname(s) accepts s: every label matches name_part_re
IsLabel(s) ==
    /\ Len(s) \in 1..63
    /\ s[1] \in Letters \cup Digits
    /\ s[Len(s)] \in Letters \cup Digits
    /\ \A k \in 1..Len(s) : s[k] \in Letters \cup Digits \cup {"-"}

IsHostname(s) ==
    /\ Len(s) <= 255
    /\ \A k \in 1..Len(SplitOn(s, ".")) : IsLabel(SplitOn(s, ".")[k])

\* dt.hostname(s)
hostname(s) ==
    IF IsIPv4(s) THEN Ok(Val("IPv4Address", 0, s))
    ELSE IF IsIPv6(s) THEN Ok(Val("IPv6Address", 0, s))
    ELSE IF IsHostname(s) THEN Ok(Val("Hostname", 0, s))
    ELSE Raise("ValueError", "DNS label is invalid")

\* hostname_parse
hostname_parse(s) == IF s = <<"-">> THEN Ok(PyNone) ELSE hostname(s)

IsPort(s) == AllDigits(s) /\ IntOf(s) <= 65535

\* IPv4Port(s) accepts s
IsIPv4Port(s) ==
    LET k == LastIndex(s, ":")
    IN  IF k = 0 THEN IsIPv4(s)
        ELSE IsPort(Slice(s, k, Len(s))) /\ IsIPv4(Slice(s, 0, k - 1))

\* IPv6Port(s) accepts s
IsIPv6Port(s) ==
    LET k == LastIndex(s, ":")
        addr == IF k = 0 THEN << >> ELSE Slice(s, 0, k - 1)
        port == IF k = 0 THEN s ELSE Slice(s, k, Len(s))
    IN  IF port # << >> /\ port[Len(port)] = "]"
        THEN IsIPv6(IF addr = << >> THEN << >> ELSE Slice(addr, 1, Len(addr))
                    \o <<":">> \o Slice(port, 0, Len(port) - 1))
        ELSE IF addr # << >> /\ addr[Len(addr)] = "]"
        THEN IsPort(port) /\ Len(addr) >= 2 /\ IsIPv6(Slice(addr, 1, Len(addr) - 1))
        ELSE IsIPv6(addr \o <<":">> \o port)

\* dt.address(s)
address(s) ==
    IF IsIPv4(s) THEN Ok(Val("IPv4Address", 0, s))
    ELSE IF IsIPv6(s) THEN Ok(Val("IPv6Address", 0, s))
    ELSE IF IsIPv4Port(s) THEN Ok(Val("IPv4Port", 0, s))
    ELSE IF IsIPv6Port(s) THEN Ok(Val("IPv6Port", 0, s))
    ELSE Raise("ValueError", "does not appear to be a valid IPv4 or IPv6 address")

\* address_parse
address_parse(s) == IF s = <<"-">> THEN Ok(PyNone) ELSE address(s)

\* url_parse (the value keeps the text that urlparse takes apart)
url_parse(s) ==
    IF s = <<"-">> \/ s = << >> THEN Ok(PyNone) ELSE Ok(Val("Url", 0, s))

\* path_parse (the value keeps the text that dt.path takes apart)
path_parse(s) == IF s = <<"-">> THEN Ok(PyNone) ELSE Ok(Val("Path", 0, s))

\* s.strip(), for the blanks
RECURSIVE Lstrip(_)
Lstrip(s) == IF s # << >> /\ s[1] \in Whitespace THEN Lstrip(Tail(s)) ELSE s

\* dt.request(s)
request(s) ==
    LET first == IF \E k \in 1..Len(s) : s[k] = " "
                 THEN CHOOSE k \in 1..Len(s) :
                         s[k] = " " /\ \A j \in 1..(k - 1) : s[j] # " "
                 ELSE 0
        rest == Slice(s, first, Len(s))
        last == LastIndex(rest, " ")
        middle == Lstrip(Rstrip(Slice(rest, 0, IF last = 0 THEN 0 ELSE last - 1)))
    IN  IF first = 0
        THEN Raise("ValueError", "Request line is missing a space separated method")
        ELSE IF last = 0
        THEN Raise("ValueError", "Request line is missing a space separated protocol")
        ELSE IF middle = << >>
        THEN Raise("ValueError", "Request line URL cannot be blank")
        ELSE Ok(Val("Request", 0, s))

\* request_parse
request_parse(s) == IF s = <<"-">> THEN Ok(PyNone) ELSE request(s)

\* lars.apache._string_parse: the text from position k on, unescaped
RECURSIVE ApacheUnescape(_, _)
ApacheUnescape(s, k) ==
    IF k > Len(s) THEN << >>
    ELSE IF s[k] # "\\" \/ k = Len(s) THEN <<s[k]>> \o ApacheUnescape(s, k + 1)
    ELSE IF s[k + 1] = "x" THEN
        IF k + 3 <= Len(s) /\ s[k + 2] \in HexDigits /\ s[k + 3] \in HexDigits
        THEN <<ChrOf(16 * HexValue(s[k + 2]) + HexValue(s[k + 3]))>>
             \o ApacheUnescape(s, k + 4)
        ELSE <<s[k]>> \o ApacheUnescape(s, k + 1)
    ELSE <<CASE s[k + 1] = "n" -> "\n" [] s[k + 1] = "t" -> "\t"
             [] s[k + 1] = "f" -> "\f" [] OTHER -> s[k + 1]>>
         \o ApacheUnescape(s, k + 2)

apache_string_parse(s) ==
    IF s = <<"-">> THEN Ok(PyNone) ELSE Ok(Val("str", 0, ApacheUnescape(s, 1)))

\* the patterns of TimeRE for the directives of the IIS date and time formats
TIME_Y == Rep(D, 4, 4)
TIME_m == Alt(<<Cat(<<Lit(<<"1">>), Chr({"0", "1", "2"})>>),
                Cat(<<Lit(<<"0">>), Chr(Digits \ {"0"})>>), Chr(Digits \ {"0"})>>)
TIME_d == Alt(<<Cat(<<Lit(<<"3">>), Chr({"0", "1"})>>), Cat(<<Chr({"1", "2"}), D>>),
                Cat(<<Lit(<<"0">>), Chr(Digits \ {"0"})>>), Chr(Digits \ {"0"}),
                Cat(<<Lit(<<" ">>), Chr(Digits \ {"0"})>>)>>)
TIME_H == Alt(<<Cat(<<Lit(<<"2">>), Chr({"0", "1", "2", "3"})>>),
                Cat(<<Chr({"0", "1"}), D>>), D>>)
TIME_M == Alt(<<Cat(<<Chr({"0", "1", "2", "3", "4", "5"}), D>>), D>>)
TIME_S == Alt(<<Cat(<<Lit(<<"6">>), Chr({"0", "1"})>>),
                Cat(<<Chr({"0", "1", "2", "3", "4", "5"}), D>>), D>>)

IsLeap(y) == y % 4 = 0 /\ (y % 100 # 0 \/ y % 400 = 0)
DaysInMonth(y, m) ==
    IF m = 2 THEN (IF IsLeap(y) THEN 29 ELSE 28)
    ELSE IF m \in {4, 6, 9, 11} THEN 30 ELSE 31

\* int(s) for a text of digits with blanks before them
NumOf(s) == IntOf(SelectSeq(s, LAMBDA c : c \in Digits))

\* the date of the match r of the pattern of '%Y-%m-%d': [ok, n]
DateOf(s, r) ==
    LET y == NumOf(PartText(s, r.b, 1))
        m == NumOf(PartText(s, r.b, 3))
        d == NumOf(PartText(s, r.b, 5))
    IN  IF r.ok /\ r.b[5] = Len(s) /\ y >= 1 /\ d <= DaysInMonth(y, m)
        THEN [ok |-> TRUE, n |-> y * 10000 + m * 100 + d]
        ELSE [ok |-> FALSE, n |-> 0]

\* DateTime.strptime(s, '%Y-%m-%d')
StrpDate(s) ==
    DateOf(s, MatchParts(<<TIME_Y, Dash, TIME_m, Dash, TIME_d>>, 1, s, 0, TRUE))

\* the time of the match r of the pattern of '%H:%M:%S': [ok, n]
TimeOf(s, r) ==
    LET h == NumOf(PartText(s, r.b, 1))
        m == NumOf(PartText(s, r.b, 3))
        sec == NumOf(PartText(s, r.b, 5))
    IN  IF r.ok /\ r.b[5] = Len(s) /\ sec <= 59
        THEN [ok |-> TRUE, n |-> h * 10000 + m * 100 + sec]
        ELSE [ok |-> FALSE, n |-> 0]

\* DateTime.strptime(s, '%H:%M:%S')
StrpTime(s) ==
    TimeOf(s, MatchParts(<<TIME_H, Lit(<<":">>), TIME_M, Lit(<<":">>), TIME_S>>,
                         1, s, 0, TRUE))

\* the value of type t that strptime gave, or its ValueError
Strp(t, r) ==
    IF r.ok THEN Ok(Val(t, r.n, << >>))
    ELSE Raise("ValueError", "time data does not match format")

\* date_parse
date_parse(s) == IF s = <<"-">> THEN Ok(PyNone) ELSE Strp("Date", StrpDate(s))

\* time_parse
time_parse(s) == IF s = <<"-">> THEN Ok(PyNone) ELSE Strp("Time", StrpTime(s))

\* the two digits of a number below 100
DigitText == <<"0", "1", "2", "3", "4", "5", "6", "7", "8", "9">>
TwoDigits(n) == <<DigitText[(n \div 10) + 1], DigitText[(n % 10) + 1]>>

\* a DateTime: the number of its date (year, month, day) and the six digits
\* of its time of day (hour, minute, second)
DateTimeVal(date, time) ==
    Val("DateTime", date,
        TwoDigits(time \div 10000) \o TwoDigits((time \div 100) % 100)
            \o TwoDigits(time % 100))

\* the DateTime of a date and a time that strptime gave
DateTimeOf(d, t) ==
    IF d.ok /\ t.ok THEN Ok(DateTimeVal(d.n, t.n))
    ELSE Raise("ValueError", "time data does not match format")

\* dt.datetime(date + ' ' + time, DATETIME_FORMAT)
datetime(date, time) == DateTimeOf(StrpDate(date), StrpTime(time))

(***************************************************************************)
(* lars.apache: the parsers of the time field                              *)
(***************************************************************************)
\* the patterns of TimeRE for the directives %b and %z
TIME_b ==
    Alt(<< Lit(<<"j","a","n">>), Lit(<<"f","e","b">>), Lit(<<"m","a","r">>), Lit(<<"a","p","r">>), Lit(<<"m","a","y">>),
           Lit(<<"j","u","n">>), Lit(<<"j","u","l">>), Lit(<<"a","u","g">>), Lit(<<"s","e","p">>), Lit(<<"o","c","t">>),
           Lit(<<"n","o","v">>), Lit(<<"d","e","c">>) >>)
TIME_z == Cat(<<Chr({"+", "-"}), D, D, Chr({"0", "1", "2", "3", "4", "5"}), D>>)

\* the month names that the index of a month is looked up in
MonthNames ==
    << <<"j","a","n">>, <<"f","e","b">>, <<"m","a","r">>, <<"a","p","r">>, <<"m","a","y">>, <<"j","u","n">>,
       <<"j","u","l">>, <<"a","u","g">>, <<"s","e","p">>, <<"o","c","t">>, <<"n","o","v">>, <<"d","e","c">> >>

\* s[i:j]
PySlice(s, i, j) ==
    Slice(s, IF i > Len(s) THEN Len(s) ELSE i, IF j > Len(s) THEN Len(s) ELSE j)

\* int(s): the digits may have a sign before them and blanks around them
SignedText(s) == Rstrip(Lstrip(s))
UnsignedText(s) == IF s # << >> /\ s[1] \in {"+", "-"} THEN Tail(s) ELSE s
PyInt(s) ==
    IF UnsignedText(SignedText(s)) # << >>
       /\ \A k \in 1..Len(UnsignedText(SignedText(s))) :
              UnsignedText(SignedText(s))[k] \in Digits
    THEN [exc |-> NoExc,
          n |-> (IF SignedText(s)[1] = "-" THEN -1 ELSE 1)
                    * IntOf(UnsignedText(SignedText(s)))]
    ELSE [exc |-> Exc("ValueError", "invalid literal for int()"), n |-> 0]

\* the state of _time_parse_common on the way through s: the index i, the
\* numbers f found so far, and the exception raised
TimeStart == [i |-> 1, f |-> << >>, exc |-> NoExc]
TimeFail(p, exc) == [p EXCEPT !.exc = exc]
TimeFound(p, n, i) ==
    IF n.exc # NoExc THEN TimeFail(p, n.exc)
    ELSE [p EXCEPT !.f = Append(p.f, n.n), !.i = i]

\* a number of one digit if the character after it is sep, else of two
TakeDigits(s, p, sep) ==
    IF p.exc # NoExc THEN p
    ELSE IF p.i + 1 >= Len(s) THEN
        TimeFail(p, Exc("IndexError", "string index out of range"))
    ELSE IF s[p.i + 2] = sep THEN TimeFound(p, PyInt(<<s[p.i + 1]>>), p.i + 1)
    ELSE TimeFound(p, PyInt(PySlice(s, p.i, p.i + 2)), p.i + 2)

\* the character c is expected at i
TakeChar(s, p, c) ==
    IF p.exc # NoExc THEN p
    ELSE IF p.i >= Len(s) THEN
        TimeFail(p, Exc("IndexError", "string index out of range"))
    ELSE IF s[p.i + 1] # c THEN TimeFail(p, Exc("ValueError", "Expected character"))
    ELSE [p EXCEPT !.i = p.i + 1]

\* the index of s[i:i + 3].lower() in the list of the month names
TakeMonth(s, p) ==
    IF p.exc # NoExc THEN p
    ELSE IF InSeq(Lower(PySlice(s, p.i, p.i + 3)), MonthNames) THEN
        [p EXCEPT !.f = Append(p.f, CHOOSE k \in 1..12 :
                                       MonthNames[k] = Lower(PySlice(s, p.i, p.i + 3))),
                  !.i = p.i + 3]
    ELSE TimeFail(p, Exc("ValueError", "is not in list"))

\* int(s[i:i + n])
TakeInt(s, p, n) ==
    IF p.exc # NoExc THEN p
    ELSE TimeFound(p, PyInt(PySlice(s, p.i, p.i + n)), p.i + n)

\* the sign of the offset at i: 1 or -1
TakeSign(s, p) ==
    IF p.exc # NoExc THEN p
    ELSE IF p.i >= Len(s) THEN
        TimeFail(p, Exc("IndexError", "string index out of range"))
    ELSE IF s[p.i + 1] \notin {"-", "+"} THEN
        TimeFail(p, Exc("ValueError", "Expected + or -"))
    ELSE [p EXCEPT !.f = Append(p.f, IF s[p.i + 1] = "-" THEN -1 ELSE 1),
                   !.i = p.i + 1]

\* the numbers of a timestamp in the default layout: day, month, year,
\* hour, minute, second, the sign, the hours and the minutes of the offset
CommonNumbers(s) ==
    TakeInt(s, TakeInt(s, TakeSign(s,
      TakeChar(s, TakeDigits(s,
      TakeChar(s, TakeDigits(s,
      TakeChar(s, TakeDigits(s,
      TakeChar(s, TakeInt(s,
      TakeChar(s, TakeMonth(s,
      TakeChar(s, TakeDigits(s, TimeStart, "/"), "/")),
                  "/"), 4), ":"), ":"), ":"), ":"), ":"), " "), " ")),
            2), 2)

\* the date that lies by days (-1, 0 or 1) after the date of y, m and d
ShiftDate(y, m, d, by) ==
    IF by = 0 THEN <<y, m, d>>
    ELSE IF by > 0 THEN
        IF d < DaysInMonth(y, m) THEN <<y, m, d + 1>>
        ELSE IF m < 12 THEN <<y, m + 1, 1>> ELSE <<y + 1, 1, 1>>
    ELSE IF d > 1 THEN <<y, m, d - 1>>
         ELSE IF m > 1 THEN <<y, m - 1, DaysInMonth(y, m - 1)>>
         ELSE <<y - 1, 12, 31>>

\* DateTime(*date, hour, minute, second) for the minute of the day
NaiveAt(date, minutes, second) ==
    IF date[1] < 1 \/ date[1] > 9999
    THEN Raise("OverflowError", "date value out of range")
    ELSE Ok(DateTimeVal(date[1] * 10000 + date[2] * 100 + date[3],
                        (minutes \div 60) * 10000 + (minutes % 60) * 100 + second))

\* a variant of utctimetuple that leaves the offset where it is, as
\* tstamp.timetuple() does
timetuple(y, m, d, hour, minute, second, tz) ==
    NaiveAt(<<y, m, d>>, hour * 60 + minute, second)

\* DateTime(*tstamp.utctimetuple()[:6]) of the timestamp with the offset of
\* tz minutes: the offset is taken off, and the carry goes on to the date
utctimetuple(y, m, d, hour, minute, second, tz) ==
    NaiveAt(ShiftDate(y, m, d, (hour * 60 + minute - tz) \div 1440),
            (hour * 60 + minute - tz) % 1440, second)

\* timezone(offset) accepts the offsets strictly within a day
MaxOffset == 23 * 60 + 59

\* DateTime(year, month, day, hour, minute, second, tzinfo=timezone(tz))
\* and the naive timestamp of its UTC time
AwareToNaive(y, m, d, hour, minute, second, tz) ==
    IF tz < -MaxOffset \/ tz > MaxOffset THEN
        Raise("ValueError", "offset must be a timedelta strictly between")
    ELSE IF y < 1 \/ y > 9999 \/ m < 1 \/ m > 12 \/ d < 1 \/ d > DaysInMonth(y, m)
            \/ hour < 0 \/ hour > 23 \/ minute < 0 \/ minute > 59
            \/ second < 0 \/ second > 59 THEN
        Raise("ValueError", "out of range")
    ELSE utctimetuple(y, m, d, hour, minute, second, tz)

\* the end of _time_parse_common: the numbers p were found
CommonTime(p) ==
    IF p.exc # NoExc THEN [exc |-> p.exc, val |-> PyNone]
    ELSE AwareToNaive(p.f[3], p.f[2], p.f[1], p.f[4], p.f[5], p.f[6],
                      p.f[7] * (p.f[8] * 60 + p.f[9]))

\* _time_parse_common
_time_parse_common(s) ==
    IF ~(24 <= Len(s) /\ Len(s) <= 28) THEN Raise("ValueError", "Invalid length")
    ELSE IF s[1] # "[" THEN Raise("ValueError", "Expected \"[\"")
    ELSE IF s[Len(s)] # "]" THEN Raise("ValueError", "Expected \"]\"")
    ELSE CommonTime(CommonNumbers(s))

\* the pattern of TimeRE for the directive c of a format
TimeDirective(c) ==
    CASE c = "Y" -> TIME_Y
      [] c = "m" -> TIME_m
      [] c = "d" -> TIME_d
      [] c = "H" -> TIME_H
      [] c = "M" -> TIME_M
      [] c = "S" -> TIME_S
      [] c = "b" -> TIME_b
      [] c = "z" -> TIME_z

\* TimeRE().pattern(fmt) from position k on, as a list of parts: one for a
\* directive, one for a run of blanks and one for any other character
RECURSIVE TimeREParts(_, _)
TimeREParts(fmt, k) ==
    IF k > Len(fmt) THEN << >>
    ELSE IF fmt[k] = "%" THEN <<TimeDirective(fmt[k + 1])>> \o TimeREParts(fmt, k + 2)
    ELSE IF fmt[k] \in Whitespace
    THEN <<Plus(Chr(Whitespace))>> \o TimeREParts(fmt, k + 1)
    ELSE <<Lit(<<fmt[k]>>)>> \o TimeREParts(fmt, k + 1)

\* the directive that each of these parts stands for, or "" for the others
RECURSIVE TimeREKeys(_, _)
TimeREKeys(fmt, k) ==
    IF k > Len(fmt) THEN << >>
    ELSE IF fmt[k] = "%" THEN <<fmt[k + 1]>> \o TimeREKeys(fmt, k + 2)
    ELSE <<"">> \o TimeREKeys(fmt, k + 1)

\* found_dict[c] of the match r as a number, or the number absent
FoundNumber(s, fmt, r, c, absent) ==
    IF InSeq(c, TimeREKeys(fmt, 1))
    THEN NumOf(PartText(s, r.b, CHOOSE k \in 1..Len(TimeREKeys(fmt, 1)) :
                                    TimeREKeys(fmt, 1)[k] = c))
    ELSE absent

\* found_dict[c] of the match r as a text, or the text absent
FoundText(s, fmt, r, c, absent) ==
    IF InSeq(c, TimeREKeys(fmt, 1))
    THEN PartText(s, r.b, CHOOSE k \in 1..Len(TimeREKeys(fmt, 1)) :
                              TimeREKeys(fmt, 1)[k] = c)
    ELSE absent

\* the month of the match: its number, or the index of its name
FoundMonth(s, fmt, r) ==
    IF InSeq("b", TimeREKeys(fmt, 1))
    THEN CHOOSE k \in 1..12 : MonthNames[k] = Lower(FoundText(s, fmt, r, "b", << >>))
    ELSE FoundNumber(s, fmt, r, "m", 1)

\* the offset of the text z of a %z in minutes
OffsetOf(z) ==
    (IF z[1] = "-" THEN -1 ELSE 1)
        * (IntOf(Slice(z, 1, 3)) * 60 + IntOf(Slice(z, 3, 5)))

\* _strptime_datetime(DateTime, s, fmt) after the match r of the pattern of
\* fmt, and the naive timestamp of its UTC time
StrpDateTime(s, fmt, r) ==
    IF ~r.ok THEN Raise("ValueError", "time data does not match format")
    ELSE IF r.b[Len(r.b)] # Len(s) THEN Raise("ValueError", "unconverted data remains")
    ELSE AwareToNaive(FoundNumber(s, fmt, r, "Y", 1900), FoundMonth(s, fmt, r),
                      FoundNumber(s, fmt, r, "d", 1), FoundNumber(s, fmt, r, "H", 0),
                      FoundNumber(s, fmt, r, "M", 0), FoundNumber(s, fmt, r, "S", 0),
                      OffsetOf(FoundText(s, fmt, r, "z", <<"+","0","0","0","0">>)))

\* _time_parse_format
_time_parse_format(s, fmt) ==
    StrpDateTime(s, fmt, MatchParts(TimeREParts(fmt, 1), 1, s, 0, TRUE))

\* s.replace('""', '"') from position k on
RECURSIVE HalveQuotes(_, _)
HalveQuotes(s, k) ==
    IF k > Len(s) THEN << >>
    ELSE IF k < Len(s) /\ s[k] = "\"" /\ s[k + 1] = "\""
    THEN <<"\"">> \o HalveQuotes(s, k + 2)
    ELSE <<s[k]>> \o HalveQuotes(s, k + 1)

\* unquote_plus(s) from position k on
RECURSIVE UnquotePlus(_, _)
UnquotePlus(s, k) ==
    IF k > Len(s) THEN << >>
    ELSE IF s[k] = "+" THEN <<" ">> \o UnquotePlus(s, k + 1)
    ELSE IF s[k] = "%" /\ k + 2 <= Len(s)
            /\ s[k + 1] \in HexDigits /\ s[k + 2] \in HexDigits
    THEN <<ChrOf(16 * HexValue(s[k + 1]) + HexValue(s[k + 2]))>>
         \o UnquotePlus(s, k + 3)
    ELSE <<s[k]>> \o UnquotePlus(s, k + 1)

\* lars.iis._string_parse
iis_string_parse(s) ==
    IF s = <<"-">> THEN Ok(PyNone)
    ELSE IF s # << >> /\ s[1] = "\""
    THEN Ok(Val("str", 0, HalveQuotes(Slice(s, 1, IF Len(s) > 1 THEN Len(s) - 1 ELSE 1), 1)))
    ELSE Ok(Val("str", 0, UnquotePlus(s, 1)))

\* the call f(s) of a parser of a row
CallParser(f, s) ==
    CASE f = "int_parse" -> int_parse(s)
      [] f = "fixed_parse" -> fixed_parse(s)
      [] f = "date_parse" -> date_parse(s)
      [] f = "time_parse" -> time_parse(s)
      [] f = "url_parse" -> url_parse(s)
      [] f = "path_parse" -> path_parse(s)
      [] f = "request_parse" -> request_parse(s)
      [] f = "hostname_parse" -> hostname_parse(s)
      [] f = "address_parse" -> address_parse(s)
      [] f = "apache_string_parse" -> apache_string_parse(s)
      [] f = "iis_string_parse" -> iis_string_parse(s)
      [] f = "identity" -> Ok(Val("str", 0, s))
      [] f = "_time_parse_common" -> _time_parse_common(s)

\* IISSource.TYPES: the pattern of the string type
IIS_STRING ==
    Alt(<< Cat(<<Lit(<<"\"">>),
                 Star(Alt(<<NotChr({"\""}), Lit(<<"\"", "\"">>)>>)),
                 Lit(<<"\"">>)>>),
           Cat(<<NotChr({"\""} \cup Whitespace), Star(NotChr(Whitespace))>>),
           Dash >>)

\* the pattern that a name of the TYPES tables stands for
RegexOf(re) ==
    CASE re = "ADDRESS" -> ADDRESS
      [] re = "ADDRESS_PORT" -> ADDRESS_PORT
      [] re = "PATH" -> PATH
      [] re = "HOSTNAME" -> HOSTNAME
      [] re = "INTEGER" -> INTEGER
      [] re = "FIXED" -> FIXED
      [] re = "DATE_ISO" -> DATE_ISO
      [] re = "TIME_ISO" -> TIME_ISO
      [] re = "METHOD" -> METHOD
      [] re = "PROTOCOL" -> PROTOCOL
      [] re = "REQUEST" -> REQUEST
      [] re = "URL" -> URL
      [] re = "APACHE_URL_STEM" -> APACHE_URL_STEM
      [] re = "APACHE_URL_QUERY" -> APACHE_URL_QUERY
      [] re = "APACHE_STRING" -> APACHE_STRING
      [] re = "APACHE_KEEPALIVE" -> APACHE_KEEPALIVE
      [] re = "APACHE_TIME_COMMON" -> APACHE_TIME_COMMON
      [] re = "IIS_STRING" -> IIS_STRING

(***************************************************************************)
(* Matching a line against the compiled row pattern, and making the row    *)
(***************************************************************************)
\* the parts '^', '\s+' and '$' of an IIS row pattern
BolPart == [kind |-> "bol", text |-> << >>, name |-> << >>, re |-> "", fmt |-> << >>]
WsPart  == [kind |-> "ws", text |-> << >>, name |-> << >>, re |-> "", fmt |-> << >>]
EolPart == [kind |-> "eol", text |-> << >>, name |-> << >>, re |-> "", fmt |-> << >>]

\* _row_pattern is None
NonePattern ==
    <<[kind |-> "None", text |-> << >>, name |-> << >>, re |-> "", fmt |-> << >>]>>
\* _row_type is None
NoneType == <<None>>
\* _row_funcs is None
NoneFuncs == <<"None">>

PartRegex(part) ==
    CASE part.kind = "lit" -> Lit(part.text)
      [] part.kind = "field" -> RegexOf(part.re)
      [] part.kind = "bol" -> Bol
      [] part.kind = "ws" -> Plus(Chr(Whitespace))
      [] part.kind = "eol" -> Eol

\* the texts of the field groups of a match, in the order of the fields
RECURSIVE GroupTexts(_, _, _, _)
GroupTexts(row_pattern, s, b, k) ==
    IF k > Len(row_pattern) THEN << >>
    ELSE (IF row_pattern[k].kind = "field" THEN <<PartText(s, b, k)>> ELSE << >>)
         \o GroupTexts(row_pattern, s, b, k + 1)

\* the match m of the parts of a row pattern: whether it matched, the text
\* of the whole match and the texts of the groups
MatchOf(row_pattern, s, m) ==
    [ok |-> m.ok,
     whole |-> IF m.ok /\ m.b # << >> THEN Slice(s, 0, m.b[Len(m.b)]) ELSE << >>,
     groups |-> IF m.ok THEN GroupTexts(row_pattern, s, m.b, 1) ELSE << >>]

\* _row_pattern.match(s)
RowMatch(row_pattern, s, ic) ==
    MatchOf(row_pattern, s,
            MatchParts([k \in 1..Len(row_pattern) |-> PartRegex(row_pattern[k])],
                       1, s, 0, ic))

\* match.group(*fields) as zip() takes it apart: a tuple of the texts of
\* the groups for two fields or more, but one text for one field (and the
\* text of the whole match for no field), and a text is taken apart into
\* its characters
GroupValues(m, nfields) ==
    IF nfields >= 2 THEN m.groups
    ELSE LET text == IF nfields = 1 THEN m.groups[1] ELSE m.whole
         IN  [k \in 1..Len(text) |-> <<text[k]>>]

Min(a, b) == IF a < b THEN a ELSE b

\* the results res of the parsers: the values, or the first exception
Parsed(res) ==
    [exc |-> FirstExc([k \in 1..Len(res) |-> res[k].exc]),
     values |-> [k \in 1..Len(res) |-> res[k].val]]

\* [f(v) for (f, v) in zip(row_funcs, values)]: the values, or the first
\* exception that a parser raises
ParseValues(row_funcs, values) ==
    Parsed([k \in 1..Min(Len(row_funcs), Len(values)) |->
               CallParser(row_funcs[k], values[k])])

\* a variant of MakeRow without the except clause for ValueError
MakeRowRaising(row_type, p) ==
    IF p.exc # NoExc THEN
        [kind |-> "raise", exc |-> p.exc, values |-> << >>, counted |-> FALSE]
    ELSE IF Len(p.values) # Len(row_type) THEN
        [kind |-> "raise", exc |-> Exc("TypeError", "Row.__new__() arguments"),
         values |-> << >>, counted |-> TRUE]
    ELSE [kind |-> "row", exc |-> NoExc, values |-> p.values, counted |-> TRUE]

\* the line matched and the parsers gave p: a row is made of the values,
\* after count is incremented
MakeRow(row_type, p) ==
    IF p.exc.type = "ValueError" THEN
        [kind |-> "warning", exc |-> Exc("Warning", p.exc.msg),
         values |-> << >>, counted |-> FALSE]
    ELSE IF p.exc # NoExc THEN
        [kind |-> "raise", exc |-> p.exc, values |-> << >>, counted |-> FALSE]
    ELSE IF Len(p.values) # Len(row_type) THEN
        [kind |-> "raise", exc |-> Exc("TypeError", "Row.__new__() arguments"),
         values |-> << >>, counted |-> TRUE]
    ELSE [kind |-> "row", exc |-> NoExc, values |-> p.values, counted |-> TRUE]

\* what the loop of __iter__ does after the match m of the row pattern
Matched(row_funcs, row_type, m) ==
    IF ~m.ok THEN
        [kind |-> "warning", exc |-> Exc("Warning", "Line contains invalid data"),
         values |-> << >>, counted |-> FALSE]
    ELSE MakeRow(row_type,
                 ParseValues(row_funcs, GroupValues(m, Len(row_type))))

\* what the body of the loop of __iter__ does with a line that the row
\* pattern is tried on: a row, a warning, or an exception of another kind
RowOutcome(row_pattern, row_funcs, row_type, s, ic) ==
    Matched(row_funcs, row_type, RowMatch(row_pattern, s, ic))

(***************************************************************************)
(* lars.iis: the directives of an IIS log file                             *)
(***************************************************************************)
WsStar == Star(Chr(Whitespace))
AnyText == Star(NotChr({"\n"}))

\* '^#\s*<name>\s*:\s*', the start of every directive pattern
DirectiveStart(name) ==
    Cat(<<Bol, Lit(<<"#">>), WsStar, Lit(name), WsStar, Lit(<<":">>), WsStar>>)

\* the patterns as lists of parts; the groups are the parts in between
VERSION_RE ==
    << DirectiveStart(<<"V","e","r","s","i","o","n">>),
       Cat(<<Plus(D), Lit(<<".">>), Plus(D)>>),
       Cat(<<WsStar, Eol>>) >>
DateParts(name) ==
    << DirectiveStart(name),
       Cat(<<Rep(D, 4, 4), Dash, Rep(D, 2, 2), Dash, Rep(D, 2, 2)>>),
       WsStar,
       Cat(<<Rep(D, 2, 2), Lit(<<":">>), Rep(D, 2, 2), Lit(<<":">>), Rep(D, 2, 2)>>),
       Cat(<<WsStar, Eol>>) >>
START_DATE_RE == DateParts(<<"S","t","a","r","t","-","D","a","t","e">>)
END_DATE_RE == DateParts(<<"E","n","d","-","D","a","t","e">>)
DATE_RE == DateParts(<<"D","a","t","e">>)
SOFTWARE_RE == << DirectiveStart(<<"S","o","f","t","w","a","r","e">>), AnyText, Eol >>
REMARK_RE == << DirectiveStart(<<"R","e","m","a","r","k">>), AnyText, Eol >>
FIELDS_RE == << DirectiveStart(<<"F","i","e","l","d","s">>), AnyText, Eol >>

DATETIME_FORMAT == <<"%","Y","-","%","m","-","%","d"," ","%","H",":","%","M",":","%","S">>

\* the (directive, regex) pairs that _process_directive tries, in order
Directives ==
    << <<"Version", VERSION_RE>>, <<"Software", SOFTWARE_RE>>,
       <<"Remar", REMARK_RE>>, <<"Fields", FIELDS_RE>>,
       <<"Start-Date", START_DATE_RE>>, <<"End-Date", END_DATE_RE>>,
       <<"Date", DATE_RE>> >>

\* the first pair whose regex matches the line, or 0 (the else of the for)
DirectiveOf(line) ==
    LET hits == {k \in 1..Len(Directives) :
                    MatchParts(Directives[k][2], 1, line, 0, TRUE).ok}
    IN  IF hits = {} THEN 0
        ELSE CHOOSE k \in hits : \A j \in hits : k <= j

\* FIELD_RE: the prefix of a field name
FieldPrefix ==
    Alt(<< Cat(<<Chr({"r", "c"}), Opt(Lit(<<"s">>))>>),
           Cat(<<Lit(<<"s">>), Opt(Chr({"r", "c"}))>>),
           Lit(<<"x">>) >>)
Identifier == Plus(NotChr({" "}))

\* the groups of a match m of FIELD_RE in t, which starts at i: the parts
\* of m are the prefix, the separator, the identifier and the ')'
FieldGroups(t, i, m, header) ==
    [ok |-> TRUE, prefix |-> PartText(t, m.b, 1), header |-> header,
     identifier |-> PartText(t, m.b, 3), end |-> i + m.b[Len(m.b)]]

\* the match of an identifier alone, if there is one
BareField(t, i, c) ==
    IF c.ok THEN [ok |-> TRUE, prefix |-> << >>, header |-> << >>,
                  identifier |-> PartText(t, c.b, 1), end |-> i + c.b[1]]
    ELSE [ok |-> FALSE, prefix |-> << >>, header |-> << >>,
          identifier |-> << >>, end |-> i]

\* the match of prefix-identifier, if there is one
PrefixedField(t, i, b) ==
    IF b.ok THEN FieldGroups(t, i, b, << >>)
    ELSE BareField(t, i, MatchParts(<<Identifier>>, 1, t, 0, FALSE))

\* the match of prefix(header), if there is one
HeaderField(t, i, a) ==
    IF a.ok THEN FieldGroups(t, i, a, <<"(">>)
    ELSE PrefixedField(t, i, MatchParts(<<FieldPrefix, Lit(<<"-">>), Identifier>>,
                                        1, t, 0, FALSE))

\* FIELD_RE matched in the text t, which starts at position i of the line:
\* prefix(header), prefix-identifier or an identifier alone
FIELD_RE(t, i) ==
    HeaderField(t, i, MatchParts(<<FieldPrefix, Lit(<<"(">>), Identifier,
                                   Lit(<<")">>)>>, 1, t, 0, FALSE))

\* FIELD_RE.findall(line) from position i on
RECURSIVE FindAll(_, _)
RECURSIVE FoundAt(_, _, _)
FindAll(s, i) ==
    IF i >= Len(s) THEN << >>
    ELSE FoundAt(s, i, FIELD_RE(Slice(s, i, Len(s)), i))

FoundAt(s, i, m) ==
    IF m.ok THEN <<m>> \o FindAll(s, m.end) ELSE FindAll(s, i + 1)

FIELD_TYPES ==
    (<<"b","y","t","e","s">> :> "integer") @@ (<<"c","a","c","h","e","d">> :> "integer") @@
    (<<"c","o","m","m","e","n","t">> :> "text") @@ (<<"c","o","u","n","t">> :> "integer") @@
    (<<"d","a","t","e">> :> "date_iso") @@ (<<"d","n","s">> :> "hostname") @@
    (<<"i","n","t","e","r","v","a","l">> :> "integer") @@ (<<"i","p">> :> "address_port") @@
    (<<"m","e","t","h","o","d">> :> "hostname") @@ (<<"s","t","a","t","u","s">> :> "integer") @@
    (<<"t","i","m","e","-","f","r","o","m">> :> "time_iso") @@ (<<"t","i","m","e","-","t","a","k","e","n">> :> "fixed") @@
    (<<"t","i","m","e">> :> "time_iso") @@ (<<"t","i","m","e","-","t","o">> :> "time_iso") @@
    (<<"u","r","i","-","q","u","e","r","y">> :> "url") @@ (<<"u","r","i","-","s","t","e","m">> :> "url") @@ (<<"u","r","i">> :> "url") @@
    (<<"c","o","m","p","u","t","e","r","n","a","m","e">> :> "string") @@ (<<"h","o","s","t">> :> "hostname") @@
    (<<"p","o","r","t">> :> "integer") @@ (<<"s","i","t","e","n","a","m","e">> :> "string") @@
    (<<"s","u","b","s","t","a","t","u","s">> :> "integer") @@ (<<"u","s","e","r","n","a","m","e">> :> "string") @@
    (<<"v","e","r","s","i","o","n">> :> "string") @@ (<<"w","i","n","3","2","-","s","t","a","t","u","s">> :> "integer")

IIS_TYPES ==
    [ integer      |-> <<"int_parse", "INTEGER">>,
      fixed        |-> <<"fixed_parse", "FIXED">>,
      date_iso     |-> <<"date_parse", "DATE_ISO">>,
      time_iso     |-> <<"time_parse", "TIME_ISO">>,
      url          |-> <<"url_parse", "URL">>,
      string       |-> <<"iis_string_parse", "IIS_STRING">>,
      hostname     |-> <<"hostname_parse", "HOSTNAME">>,
      address_port |-> <<"address_parse", "ADDRESS_PORT">> ]

\* FIELD_TYPES.get(identifier, 'string')
FieldTypeOf(identifier) ==
    IF identifier \in DOMAIN FIELD_TYPES THEN FIELD_TYPES[identifier] ELSE "string"

\* original_name, python_name and field_type of one field of findall
FieldInfo(f) ==
    IF f.header # << >> THEN
        [original_name |-> f.prefix \o <<"(">> \o f.identifier \o <<")">>,
         python_name |-> sanitize_name(f.prefix \o <<"_">> \o f.identifier),
         field_type |-> IF Lower(f.identifier) \in {<<"r","e","f","e","r","e","r">>, <<"r","e","f","e","r","r","e","r">>}
                        THEN "url" ELSE "string"]
    ELSE IF f.prefix # << >> THEN
        [original_name |-> f.prefix \o <<"-">> \o f.identifier,
         python_name |-> sanitize_name(f.prefix \o <<"_">> \o f.identifier),
         field_type |-> FieldTypeOf(f.identifier)]
    ELSE
        [original_name |-> f.identifier,
         python_name |-> sanitize_name(f.identifier),
         field_type |-> FieldTypeOf(f.identifier)]

\* the loop of _process_fields over the fields from the k-th on
RECURSIVE FieldsLoop(_, _, _, _, _)
FieldsLoop(found, k, fields, pattern, tuple_funcs) ==
    IF k > Len(found) THEN
        [exc |-> NoExc, fields |-> fields, pattern |-> pattern,
         tuple_funcs |-> tuple_funcs]
    ELSE LET f == FieldInfo(found[k])
         IN  IF f.field_type \notin DOMAIN IIS_TYPES THEN
                 [exc |-> Exc("KeyError", f.field_type), fields |-> fields,
                  pattern |-> pattern, tuple_funcs |-> tuple_funcs]
             ELSE IF InSeq(f.original_name, fields) THEN
                 [exc |-> Exc("IISFieldsError", "Duplicate field name"),
                  fields |-> fields, pattern |-> pattern,
                  tuple_funcs |-> tuple_funcs]
             ELSE FieldsLoop(found, k + 1, Append(fields, f.original_name),
                     pattern \o (IF pattern # << >> THEN <<WsPart>> ELSE << >>)
                             \o <<FieldPart(f.python_name,
                                            IIS_TYPES[f.field_type][2], << >>)>>,
                     Append(tuple_funcs, IIS_TYPES[f.field_type][1]))

\* the end of _process_fields: the fields l of the loop are made the row
\* format
SetFields(me, l) ==
    LET tuple_fields == PartNames(l.pattern)
        s1 == [me EXCEPT !.fields = l.fields]
        s2 == [s1 EXCEPT !.row_pattern = <<BolPart>> \o l.pattern \o <<EolPart>>]
        s3 == [s2 EXCEPT !.row_type = tuple_fields, !.row_funcs = l.tuple_funcs]
    IN  IF l.exc # NoExc THEN [exc |-> l.exc, self |-> s1]
        ELSE IF CompileError(tuple_fields) # NoExc
        THEN [exc |-> CompileError(tuple_fields), self |-> s1]
        ELSE IF row(tuple_fields) # NoExc
        THEN [exc |-> row(tuple_fields), self |-> s2]
        ELSE [exc |-> NoExc, self |-> s3]

\* _process_fields(line) on the attributes me: the attributes after it
\* and the exception it raised
_process_fields(me, line) ==
    IF me.fields # << >> THEN
        [exc |-> Exc("IISFieldsError", "Second #Fields directive found"),
         self |-> me]
    ELSE SetFields(me, FieldsLoop(FindAll(line, 0), 1, me.fields,
                                    << >>, << >>))

\* the date and time of a date directive, from the match m of its regex
DirectiveDate(line, m) ==
    datetime(PartText(line, m.b, 2), PartText(line, m.b, 4))

\* a variant of SetDate that assigns every date to the date attribute
SetDateOnly(me, attr, when) ==
    [exc |-> when.exc,
     self |-> IF when.exc # NoExc THEN me ELSE [me EXCEPT !.date = when.val]]

\* the attributes after a date directive that gave the date when
SetDate(me, attr, when) ==
    [exc |-> when.exc,
     self |-> IF when.exc # NoExc THEN me
              ELSE IF attr = "start" THEN [me EXCEPT !.start = when.val]
              ELSE IF attr = "finish" THEN [me EXCEPT !.finish = when.val]
              ELSE [me EXCEPT !.date = when.val]]

\* the branches of _process_directive for the directive found: m is the
\* match of its regex
Directive(me, line, directive, m) ==
    LET text == PartText(line, m.b, 2)
    IN  IF directive = "Version" THEN
            IF me.version # None THEN
                [exc |-> Exc("IISVersionError", "Found a second #Version directive"),
                 self |-> me]
            ELSE IF text # <<"1",".","0">> THEN
                [exc |-> Exc("IISVersionError", "Unknown IIS log version"),
                 self |-> [me EXCEPT !.version = text]]
            ELSE [exc |-> NoExc, self |-> [me EXCEPT !.version = text]]
        ELSE IF directive = "Software" THEN
            [exc |-> NoExc, self |-> [me EXCEPT !.software = text]]
        ELSE IF directive = "Remark" THEN
            [exc |-> NoExc, self |-> [me EXCEPT !.remark = text]]
        ELSE IF directive = "Fields" THEN _process_fields(me, text)
        ELSE IF directive = "Start-Date" THEN
            SetDate(me, "start", DirectiveDate(line, m))
        ELSE IF directive = "End-Date" THEN
            SetDate(me, "finish", DirectiveDate(line, m))
        ELSE IF directive = "Date" THEN
            SetDate(me, "date", DirectiveDate(line, m))
        ELSE [exc |-> NoExc, self |-> me]

\* a variant of Found without the else of the for loop: a line that is no
\* directive is passed over
FoundLenient(me, line, k) ==
    IF k = 0 THEN [exc |-> NoExc, self |-> me]
    ELSE Directive(me, line, Directives[k][1],
                   MatchParts(Directives[k][2], 1, line, 0, TRUE))

\* _process_directive after its loop found the k-th pair (0: none)
Found(me, line, k) ==
    IF k = 0 THEN
        [exc |-> Exc("IISDirectiveError", "Unrecognized directive"), self |-> me]
    ELSE Directive(me, line, Directives[k][1],
                   MatchParts(Directives[k][2], 1, line, 0, TRUE))

\* _process_directive(line) on the attributes me: the attributes after
\* it and the exception it raised
_process_directive(me, line) == Found(me, line, DirectiveOf(line))

(***************************************************************************)
(* The sources as state machines                                           *)
(***************************************************************************)
\* the most lines that follow the header lines of a line source
MaxLines == 2
\* the most iterators made of one source
MaxIters == 2

\* the LogFormat strings tried with lines of data
DataFormats == { <<"%","h"," ","%","b">>, <<"%","h">> }
ApacheLines == { <<"a","b"," ","7","\n">>, <<"!"," ","7">>, <<"."," ","7">>, <<":",":","1">> }
\* lines of data with a host and a size, without and with text after them
TrailingLines == { <<"a","b"," ","7","\n">>, <<"a","b"," ","7"," ","x","\n">> }

\* timestamps in the default layout of Apache: days, hours, minutes and
\* seconds of one and of two digits, offsets of both signs, and offsets
\* that carry the date over a day, a month, a leap day and a year
TimeStamps ==
    { <<"[","2","5","/","D","e","c","/","1","9","9","8",":","1","7",":","4","5",":","3","5"," ","+","0","0","0","0","]">>, <<"[","2","5","/","D","e","c","/","1","9","9","8",":","1","7",":","4","5",":","3","5"," ","+","0","1","0","0","]">>,
      <<"[","4","/","D","e","c","/","2","0","0","1",":","2","3",":","5","9",":","5","9"," ","-","0","5","0","0","]">>, <<"[","4","/","D","e","c","/","2","0","0","1",":","2",":","9",":","5"," ","-","0","5","0","0","]">>,
      <<"[","1","/","M","a","r","/","2","0","0","0",":","0",":","3","0",":","0","0"," ","+","0","1","0","0","]">>, <<"[","0","1","/","M","a","r","/","2","0","0","1",":","0","0",":","3","0",":","0"," ","+","0","5","3","0","]">>,
      <<"[","3","1","/","D","e","c","/","1","9","9","9",":","2","3",":","5","9",":","5","9"," ","-","2","3","5","9","]">>, <<"[","1","/","J","a","n","/","2","0","0","0",":","0",":","0",":","0"," ","+","2","3","5","9","]">> }
\* the LogFormat string with a time in the default layout, and its lines
TimeFormats == { <<"%","t"," ","%","b">> }
TimeLines == { t \o <<" ","7","\n">> : t \in TimeStamps }
\* the sources of timestamps: one line each, a parser being called on one
\* text at a time
TimeSources == { <<l>> : l \in TimeLines }

\* the table of format strings and field names in the documentation of
\* ApacheSource, with a cookie, a variable, a header and a time format
\* written out
DocumentedNames ==
    { <<<<"%","a">>, <<"r","e","m","o","t","e","_","i","p">>>>, <<<<"%","A">>, <<"l","o","c","a","l","_","i","p">>>>,
      <<<<"%","B">>, <<"s","i","z","e">>>>, <<<<"%","b">>, <<"s","i","z","e">>>>,
      <<<<"%","{","F","o","o","b","a","r","}","C">>, <<"c","o","o","k","i","e","_","F","o","o","b","a","r">>>>, <<<<"%","D">>, <<"t","i","m","e","_","t","a","k","e","n","_","m","s">>>>,
      <<<<"%","{","F","O","O","B","A","R","}","e">>, <<"e","n","v","_","F","O","O","B","A","R">>>>, <<<<"%","f">>, <<"f","i","l","e","n","a","m","e">>>>,
      <<<<"%","h">>, <<"r","e","m","o","t","e","_","h","o","s","t">>>>, <<<<"%","H">>, <<"p","r","o","t","o","c","o","l">>>>,
      <<<<"%","{","F","o","o","b","a","r","}","i">>, <<"r","e","q","_","F","o","o","b","a","r">>>>, <<<<"%","k">>, <<"k","e","e","p","a","l","i","v","e">>>>,
      <<<<"%","l">>, <<"i","d","e","n","t">>>>, <<<<"%","m">>, <<"m","e","t","h","o","d">>>>,
      <<<<"%","{","F","o","o","b","a","r","}","n">>, <<"n","o","t","e","_","F","o","o","b","a","r">>>>, <<<<"%","{","F","o","o","b","a","r","}","o">>, <<"r","e","s","p","_","F","o","o","b","a","r">>>>,
      <<<<"%","p">>, <<"p","o","r","t">>>>, <<<<"%","{","c","a","n","o","n","i","c","a","l","}","p">>, <<"p","o","r","t">>>>,
      <<<<"%","{","l","o","c","a","l","}","p">>, <<"l","o","c","a","l","_","p","o","r","t">>>>, <<<<"%","{","r","e","m","o","t","e","}","p">>, <<"r","e","m","o","t","e","_","p","o","r","t">>>>,
      <<<<"%","P">>, <<"p","i","d">>>>, <<<<"%","{","p","i","d","}","P">>, <<"p","i","d">>>>,
      <<<<"%","{","t","i","d","}","P">>, <<"t","i","d">>>>, <<<<"%","{","h","e","x","t","i","d","}","P">>, <<"h","e","x","t","i","d">>>>,
      <<<<"%","q">>, <<"u","r","l","_","q","u","e","r","y">>>>, <<<<"%","r">>, <<"r","e","q","u","e","s","t">>>>,
      <<<<"%","R">>, <<"h","a","n","d","l","e","r">>>>, <<<<"%","s">>, <<"s","t","a","t","u","s">>>>,
      <<<<"%","t">>, <<"t","i","m","e">>>>, <<<<"%","{","%","H",":","%","M","}","t">>, <<"t","i","m","e">>>>,
      <<<<"%","T">>, <<"t","i","m","e","_","t","a","k","e","n">>>>, <<<<"%","u">>, <<"r","e","m","o","t","e","_","u","s","e","r">>>>,
      <<<<"%","U">>, <<"u","r","l","_","s","t","e","m">>>>, <<<<"%","v">>, <<"s","e","r","v","e","r","_","n","a","m","e">>>>,
      <<<<"%","V">>, <<"c","a","n","o","n","i","c","a","l","_","n","a","m","e">>>>, <<<<"%","X">>, <<"c","o","n","n","e","c","t","i","o","n","_","s","t","a","t","u","s">>>>,
      <<<<"%","I">>, <<"b","y","t","e","s","_","r","e","c","e","i","v","e","d">>>>, <<<<"%","O">>, <<"b","y","t","e","s","_","s","e","n","t">>>> }

\* status code filters and modifiers, as they are written between the '%'
\* and the rest of a field specification
Decorations ==
    { <<"2","0","0">>, <<"!","2","0","0",",","3","0","4">>, <<"<">>, <<">">>, <<"!","4","0","4",",","5","0","0","<">> }

\* the field specification f with the decoration x
Decorate(f, x) == <<"%">> \o x \o Tail(f)

\* LogFormat strings with decorations, each with the LogFormat string that
\* is left without them: every documented format string with every
\* decoration, and a format that is tried with lines of data
DecoratedFormats ==
    { <<Decorate(d[1], x), d[1]>> : d \in DocumentedNames, x \in Decorations }
        \cup { << <<"%",">","h"," ","%","!","2","0","0",",","3","0","4","b">>, <<"%","h"," ","%","b">> >> }
DecoratedDataFormats == { <<"%",">","h"," ","%","!","2","0","0",",","3","0","4","b">> }
DecoratedLines == { <<"a","b"," ","7","\n">>, <<"!"," ","7">> }

\* the LogFormat strings tried with no lines: the presets, each documented
\* format string, and the two bare ones together
BareFormats ==
    { COMMON, COMMON_VHOST, COMBINED, REFERER, USER_AGENT, <<"%","p"," ","%","P">> }
    \cup { d[1] : d \in DocumentedNames }
    \cup { d[1] : d \in DecoratedFormats }

\* LogFormat strings that name a field twice
RepeatingFormats == { <<"%","b"," ","%","B">>, <<"%","{","a","-","b","}","C"," ","%","{","a","_","b","}","C">> }
\* LogFormat strings with a suffix that is no field
UnknownSuffixFormats == { <<"%","Q">> }
\* LogFormat strings whose cookie, variable, header or note has no name
MissingNameFormats ==
    { <<"%","C">>, <<"%","{","}","C">>, <<"%","e">>, <<"%","i">>, <<"%","n">>, <<"%","o">> }
\* LogFormat strings that ask for a port or an id that there is not
UnknownKeyFormats == { <<"%","{","f","o","o","}","p">>, <<"%","{","f","o","o","}","P">> }
\* LogFormat strings whose time format has a directive that there is not
UnknownTimeFormats == { <<"%","{","%","H","%",":","%","M","}","t">> }
\* all of these are tried with lines of data as well
RejectedFormats ==
    RepeatingFormats \cup UnknownSuffixFormats \cup MissingNameFormats
        \cup UnknownKeyFormats \cup UnknownTimeFormats

\* the lines of IIS log files: the header lines that a file starts with
\* and the lines that follow them
IISHeaders ==
    { << >>,
      << <<"#","V","e","r","s","i","o","n",":"," ","1",".","0","\n">> >>,
      << <<"#","V","e","r","s","i","o","n",":"," ","1",".","0","\n">>, <<"#","F","i","e","l","d","s",":"," ","c","s","-","h","o","s","t"," ","s","-","p","o","r","t","\n">> >>,
      << <<"#","V","e","r","s","i","o","n",":"," ","1",".","0","\n">>, <<"#","F","i","e","l","d","s",":","\n">> >> }
IISLines ==
    { <<"#","V","e","r","s","i","o","n",":"," ","1",".","0","\n">>, <<"#","V","e","r","s","i","o","n",":"," ","2",".","0","\n">>, <<"#","V","e","r","s","i","o","n",":"," ","f","o","o","\n">>,
      <<"#","F","i","e","l","d","s",":"," ","c","s","-","h","o","s","t"," ","s","-","p","o","r","t","\n">>, <<"#","F","o","o",":"," ","B","a","r","\n">>, <<"a","b"," ","7","\n">> }
\* the header lines that name fields, and the lines of data that are
\* tried after them
FieldsHeaders ==
    { << <<"#","V","e","r","s","i","o","n",":"," ","1",".","0","\n">>, <<"#","F","i","e","l","d","s",":"," ","c","s","-","h","o","s","t"," ","s","-","p","o","r","t","\n">> >>,
      << <<"#","V","e","r","s","i","o","n",":"," ","1",".","0","\n">>, <<"#","F","i","e","l","d","s",":"," ","c","s","-","h","o","s","t","\n">> >> }
IISDataLines == { <<"a","b"," ","7","\n">>, <<"!"," ","7">>, <<"."," ","7">>, <<":",":","1">>, <<"a","b"," ","7"," ","x","\n">> }
\* the header lines before the directives that describe the file
FullHeader == << <<"#","V","e","r","s","i","o","n",":"," ","1",".","0","\n">>, <<"#","F","i","e","l","d","s",":"," ","c","s","-","h","o","s","t"," ","s","-","p","o","r","t","\n">> >>
\* directives that name the software and give a remark, and a line of data
\* and a directive with a date whose month there is not
RemarkLines ==
    { <<"#","S","o","f","t","w","a","r","e",":"," ","a","\n">>, <<"#","S","o","f","t","w","a","r","e",":"," ","b","\n">>, <<"#","R","e","m","a","r","k",":"," ","c","\n">>, <<"a","b"," ","7","\n">>,
      <<"#","D","a","t","e",":"," ","2","0","0","2","-","1","3","-","0","1"," ","0","0",":","0","0",":","0","0","\n">> }
\* directives with dates and a line of data
DateLines ==
    { <<"#","D","a","t","e",":"," ","2","0","0","2","-","0","5","-","0","2"," ","1","7",":","4","2",":","1","5","\n">>, <<"#","D","a","t","e",":"," ","2","0","0","2","-","0","5","-","0","3"," ","0","0",":","0","0",":","0","0","\n">>,
      <<"#","S","t","a","r","t","-","D","a","t","e",":"," ","2","0","0","2","-","0","5","-","0","2"," ","1","7",":","4","2",":","1","5","\n">>,
      <<"#","E","n","d","-","D","a","t","e",":"," ","2","0","0","2","-","0","5","-","0","3"," ","0","0",":","0","0",":","0","0","\n">>, <<"a","b"," ","7","\n">> }
\* the sources with a date directive between two lines of data
DateSources ==
    { FullHeader \o << <<"a","b"," ","7","\n">>, d, <<"a","b"," ","7","\n">> >> : d \in DateLines \ { <<"a","b"," ","7","\n">> } }

\* a line of data after a header whose #Version or #Fields directive the
\* source does not take
FieldsLines ==
    { <<"#","F","i","e","l","d","s",":"," ","c","-","i","p"," ","c","-","i","p","\n">>, <<"#","F","i","e","l","d","s",":"," ","c","-","i","p"," ","c","_","i","p","\n">>,
      <<"#","F","i","e","l","d","s",":"," ","c","o","m","m","e","n","t","\n">>, <<"#","F","i","e","l","d","s",":"," ","_","x","\n">> }
DirectiveSources ==
    { << <<"#","V","e","r","s","i","o","n",":"," ","2",".","0","\n">>, <<"#","F","i","e","l","d","s",":"," ","c","s","-","h","o","s","t"," ","s","-","p","o","r","t","\n">>, <<"a","b"," ","7","\n">> >> }
    \cup { << <<"#","V","e","r","s","i","o","n",":"," ","1",".","0","\n">>, f, <<"a","b"," ","7","\n">> >> : f \in FieldsLines }

\* the sequences over S of at most n elements
RECURSIVE SeqsUpTo(_, _)
SeqsUpTo(S, n) ==
    IF n = 0 THEN { << >> }
    ELSE LET shorter == SeqsUpTo(S, n - 1)
         IN  shorter \cup {Append(s, x) : s \in shorter, x \in S}

VARIABLES
    kind,        \* "apache" for an ApacheSource, "iis" for an IISSource
    stream,      \* "list": each iterator of the line source starts at its
                 \* first line; "file": the iterators share one position
    lines,       \* the lines of the line source
    pos,         \* the number of lines read from a "file"
    st,          \* "new", "ready" (constructed) or "failed"
    self,        \* the attributes of the source
    entered,     \* "yes" inside a with block, "left" after one, else "no"
    iters,       \* the number of iterators made
    gen,         \* the iterator in use
    advs,        \* the number of advances of iterators
    log,         \* what was done with each line read
    rows,        \* the rows yielded
    warnings,    \* the calls of warnings.warn
    raised,      \* the exceptions raised to the caller
    target,      \* the attributes of a CSVTarget
    fileobj,     \* the lines written to the file that the target wraps
    writes,      \* what each call of CSVTarget.write did
    meter,       \* the attributes of a ProgressMeter
    clock,       \* what time.time() returns
    console,     \* the text written to the stream of the meter
    calls,       \* what each call of a method of the meter did
    failed,      \* the exceptions that the meter raised
    handles,     \* the six global database handles of lars.geoip
    callers,     \* the threads in init_databases: arguments and position
    current,     \* of two sources, the one that is running
    parked,      \* the variables of the source that is not running
    heap         \* the lists of fields of the sources, by address

sourceVars == <<kind, stream, lines, pos, st, self, entered, iters, gen, advs,
                log, rows, warnings, raised>>
csvVars == <<target, fileobj, writes>>
meterVars == <<meter, clock, console, calls, failed>>
geoVars == <<handles, callers>>
twoVars == <<current, parked, heap>>
otherVars == <<csvVars, meterVars, geoVars, twoVars>>
csvOthers == <<sourceVars, meterVars, geoVars, twoVars>>
meterOthers == <<sourceVars, csvVars, geoVars, twoVars>>
geoOthers == <<sourceVars, csvVars, meterVars, twoVars>>
vars == <<sourceVars, otherVars>>

\* there is no CSVTarget
NoTarget ==
    /\ target = [state |-> "none"]
    /\ fileobj = << >>
    /\ writes = << >>

\* there is no ProgressMeter
NoMeter ==
    /\ meter = [state |-> "none"]
    /\ clock = 0
    /\ console = << >>
    /\ calls = << >>
    /\ failed = << >>

\* no thread calls init_databases
NoGeo ==
    /\ handles = << >>
    /\ callers = << >>

\* there is no second source
NoTwo ==
    /\ current = 0
    /\ parked = << >>
    /\ heap = << >>

\* the programs other than the sources are not run
NoOthers == NoTarget /\ NoMeter /\ NoGeo /\ NoTwo

\* the attributes that ApacheSource.__init__ assigns before it compiles
\* the format
ApacheInit(log_format) ==
    [source |-> "source", log_format |-> log_format, count |-> 0,
     row_pattern |-> NonePattern, row_funcs |-> NoneFuncs, row_type |-> NoneType]

\* the attributes that IISSource.__init__ assigns
IISInit ==
    [source |-> "source", version |-> None, software |-> None, remark |-> None,
     start |-> PyNone, finish |-> PyNone, date |-> PyNone, fields |-> << >>,
     count |-> 0,
     row_pattern |-> NonePattern, row_funcs |-> NoneFuncs, row_type |-> NoneType]

NoGen == [state |-> "none", num |-> 0]

\* a source without lines is the same as a list and as a file
InitCommonSource ==
    /\ pos = 0
    /\ st = "new"
    /\ entered = "no"
    /\ iters = 0
    /\ gen = NoGen
    /\ advs = 0
    /\ log = << >>
    /\ rows = << >>
    /\ warnings = << >>
    /\ raised = << >>

InitCommon ==
    /\ stream \in IF lines = << >> THEN {"list"} ELSE {"list", "file"}
    /\ InitCommonSource
    /\ NoOthers

\* an ApacheSource with one of the formats and at most n of the lines
ApacheWith(formats, from, n) ==
    \E f \in formats :
        /\ self = ApacheInit(f)
        /\ lines \in SeqsUpTo(from, n)

InitApache ==
    /\ kind = "apache"
    /\ \/ ApacheWith(DataFormats \cup RejectedFormats, ApacheLines, MaxLines)
       \/ ApacheWith(DecoratedDataFormats, DecoratedLines, MaxLines)
       \/ ApacheWith(BareFormats, { }, 0)
       \/ ApacheWith({ <<"%","h"," ","%","b">> }, TrailingLines, MaxLines)
       \/ \E f \in TimeFormats : self = ApacheInit(f) /\ lines \in TimeSources
    /\ InitCommon

\* an IISSource with one of the headers and at most n of the lines after it
IISWith(headers, from, n) ==
    \E h \in headers, b \in SeqsUpTo(from, n) : lines = h \o b

InitIIS ==
    /\ kind = "iis"
    /\ self = IISInit
    /\ \/ IISWith(IISHeaders, IISLines, MaxLines)
       \/ IISWith(FieldsHeaders, IISDataLines, MaxLines)
       \/ IISWith({FullHeader}, RemarkLines, MaxLines)
       \/ IISWith({FullHeader}, DateLines, MaxLines)
       \/ lines \in DateSources
       \/ lines \in DirectiveSources
    /\ InitCommon

Init == InitApache \/ InitIIS

\* IISError and its subclasses
IISErrors == {"IISError", "IISDirectiveError", "IISFieldsError", "IISVersionError"}

\* what the except clauses of __iter__ make of an exception raised for a
\* line: an error of the source that has no line number gets the number
\* and the text of the line
WithLine(classes, exc, num, line) ==
    IF exc.type \in classes /\ exc.line_number = 0
    THEN [exc EXCEPT !.line_number = num + 1, !.line = line]
    ELSE exc

\* the number in the text of the warning for the line counted num
WarnNumber(num) == num + 1

\* a line that ends the iteration with an exception
Fatal(me, exc) == [self |-> me, out |-> "raise", exc |-> exc, values |-> << >>]

\* the warning of a line that is not a row
Warn(me, exc, num) ==
    [self |-> me, out |-> "warning",
     exc |-> [exc EXCEPT !.line_number = WarnNumber(num)], values |-> << >>]

\* the outcome o of a line that the row pattern was tried on
Outcome(me, num, o) ==
    IF o.kind = "warning" THEN Warn(me, o.exc, num)
    ELSE [self |-> IF o.counted THEN [me EXCEPT !.count = @ + 1] ELSE me,
          out |-> o.kind, exc |-> o.exc, values |-> o.values]

\* the body of the loop of ApacheSource.__iter__ for one line
ApacheStep(me, line, num) ==
    Outcome(me, num,
            RowOutcome(me.row_pattern, me.row_funcs, me.row_type, Rstrip(line), TRUE))

\* the line was a directive, and _process_directive gave d
Processed(d, num, line) ==
    IF d.exc = NoExc
    THEN [self |-> d.self, out |-> "directive", exc |-> NoExc, values |-> << >>]
    ELSE Fatal(d.self, WithLine(IISErrors, d.exc, num, line))

\* the match m of a line when the source has a row pattern
IISMatched(me, num, m) ==
    IF me.row_type = NoneType THEN
        IF m.ok
        THEN Fatal(me, Exc("AttributeError",
                           "'NoneType' object has no attribute '_fields'"))
        ELSE Warn(me, Exc("Warning", "Line contains invalid data"), num)
    ELSE Outcome(me, num, Matched(me.row_funcs, me.row_type, m))

\* a variant of IISStep without the test for a missing #Version
IISStepUnversioned(me, line, num) ==
    IF StartsWith(line, <<"#">>) THEN
        Processed(_process_directive(me, Rstrip(line)), num, line)
    ELSE IF me.fields = << >> THEN
        Fatal(me, WithLine(IISErrors,
                  Exc("IISFieldsError", "Missing #Fields directive before data"), num, line))
    ELSE IF me.row_pattern = NonePattern THEN
        Fatal(me, Exc("AttributeError", "'NoneType' object has no attribute 'match'"))
    ELSE IISMatched(me, num, RowMatch(me.row_pattern, Rstrip(line), FALSE))

\* the body of the loop of IISSource.__iter__ for one line
IISStep(me, line, num) ==
    IF StartsWith(line, <<"#">>) THEN
        Processed(_process_directive(me, Rstrip(line)), num, line)
    ELSE IF me.version = None THEN
        Fatal(me, WithLine(IISErrors,
                  Exc("IISVersionError", "Missing #Version directive before data"), num, line))
    ELSE IF me.fields = << >> THEN
        Fatal(me, WithLine(IISErrors,
                  Exc("IISFieldsError", "Missing #Fields directive before data"), num, line))
    ELSE IF me.row_pattern = NonePattern THEN
        Fatal(me, Exc("AttributeError", "'NoneType' object has no attribute 'match'"))
    ELSE IISMatched(me, num, RowMatch(me.row_pattern, Rstrip(line), FALSE))

Step(me, line, num) ==
    IF kind = "apache" THEN ApacheStep(me, line, num) ELSE IISStep(me, line, num)

\* one advance of an iterator: the loop of __iter__ from the line it is at
\* to the next yield, the exception that ends it, or the end of the lines
RECURSIVE Run(_)
RECURSIVE Ran(_, _, _)

Run(r) ==
    LET index == IF stream = "list" THEN r.num ELSE r.pos
    IN  IF index >= Len(lines) THEN [r EXCEPT !.out = "stop"]
        ELSE Ran(r, index, Step(r.self, lines[index + 1], r.num))

\* a variant of Ran that goes on to the next line after a row as well
RanOn(r, index, s) ==
    LET event == [gen |-> iters, adv |-> advs + 1, num |-> r.num,
                  index |-> index, line |-> lines[index + 1], pre |-> r.self,
                  post |-> s.self,
                  out |-> s.out, exc |-> s.exc, values |-> s.values]
        read == [r EXCEPT !.self = s.self, !.num = @ + 1,
                          !.pos = IF stream = "file" THEN @ + 1 ELSE @,
                          !.log = Append(@, event)]
    IN  CASE s.out = "row" ->
                Run([read EXCEPT !.rows = Append(@, event)])
          [] s.out = "warning" ->
                Run([read EXCEPT !.warnings = Append(@, event)])
          [] s.out = "directive" -> Run(read)
          [] s.out = "raise" -> [read EXCEPT !.out = "raise", !.exc = s.exc]

\* the line at index was read and the body of the loop did s
Ran(r, index, s) ==
    LET event == [gen |-> iters, adv |-> advs + 1, num |-> r.num,
                  index |-> index, line |-> lines[index + 1], pre |-> r.self,
                  post |-> s.self,
                  out |-> s.out, exc |-> s.exc, values |-> s.values]
        read == [r EXCEPT !.self = s.self, !.num = @ + 1,
                          !.pos = IF stream = "file" THEN @ + 1 ELSE @,
                          !.log = Append(@, event)]
    IN  CASE s.out = "row" ->
                [read EXCEPT !.out = "row", !.rows = Append(@, event)]
          [] s.out = "warning" ->
                Run([read EXCEPT !.warnings = Append(@, event)])
          [] s.out = "directive" -> Run(read)
          [] s.out = "raise" -> [read EXCEPT !.out = "raise", !.exc = s.exc]

\* the end of ApacheSource.__init__: the format was compiled to f
Constructed(f) ==
    IF f.exc = NoExc
    THEN /\ st' = "ready"
         /\ self' = [self EXCEPT !.row_pattern = f.row_pattern,
                                 !.row_funcs = f.row_funcs,
                                 !.row_type = f.row_type]
         /\ raised' = raised
    ELSE /\ st' = "failed"
         /\ self' = self
         /\ raised' = Append(raised, [op |-> "__init__", exc |-> f.exc])

\* the iterator ran to r
Advanced(r) ==
    /\ self' = r.self
    /\ pos' = r.pos
    /\ log' = r.log
    /\ rows' = r.rows
    /\ warnings' = r.warnings
    /\ gen' = [state |-> IF r.out = "row" THEN "running" ELSE "done",
               num |-> r.num]
    /\ raised' = IF r.out = "raise"
                 THEN Append(raised, [op |-> "__next__", exc |-> r.exc])
                 ELSE raised

\* ApacheSource(source, log_format) and IISSource(source)
__init__ ==
    /\ st = "new"
    /\ IF kind = "apache" THEN
           Constructed(_parse_log_format(self.log_format))
       ELSE /\ st' = "ready"
            /\ UNCHANGED <<self, raised>>
    /\ UNCHANGED <<kind, stream, lines, pos, entered, iters, gen, advs, log,
                   rows, warnings>>
    /\ UNCHANGED otherVars

\* with source: ...
__enter__ ==
    /\ st = "ready"
    /\ entered # "yes"
    /\ entered' = "yes"
    /\ self' = IF kind = "iis" THEN [self EXCEPT !.count = 0] ELSE self
    /\ UNCHANGED <<kind, stream, lines, pos, st, iters, gen, advs, log, rows,
                   warnings, raised>>
    /\ UNCHANGED otherVars

\* ApacheSource.close()
close ==
    /\ st = "ready"
    /\ kind = "apache"
    /\ self' = [self EXCEPT !.source = "None"]
    /\ UNCHANGED <<kind, stream, lines, pos, st, entered, iters, gen, advs, log,
                   rows, warnings, raised>>
    /\ UNCHANGED otherVars

\* the end of the with block
__exit__ ==
    /\ st = "ready"
    /\ entered = "yes"
    /\ entered' = "left"
    /\ self' = IF kind = "apache" THEN [self EXCEPT !.source = "None"] ELSE self
    /\ UNCHANGED <<kind, stream, lines, pos, st, iters, gen, advs, log, rows,
                   warnings, raised>>
    /\ UNCHANGED otherVars

\* iter(source): a new iterator, which runs nothing until it is advanced
__iter__ ==
    /\ st = "ready"
    /\ iters < MaxIters
    /\ iters' = iters + 1
    /\ gen' = [state |-> "created", num |-> 0]
    /\ UNCHANGED <<kind, stream, lines, pos, st, self, entered, advs, log, rows,
                   warnings, raised>>
    /\ UNCHANGED otherVars

\* next(iterator)
__next__ ==
    /\ st = "ready"
    /\ gen.state \in {"created", "running"}
    /\ advs' = advs + 1
    /\ IF gen.state = "created" /\ self.source = "None" THEN
           \* enumerate(None)
           /\ gen' = [gen EXCEPT !.state = "done"]
           /\ raised' = Append(raised,
                  [op |-> "__next__",
                   exc |-> Exc("TypeError", "'NoneType' object is not iterable")])
           /\ UNCHANGED <<self, pos, log, rows, warnings>>
       ELSE
           Advanced(Run([self |-> self, pos |-> pos, num |-> gen.num,
                         log |-> log, rows |-> rows, warnings |-> warnings,
                         out |-> "", exc |-> NoExc]))
    /\ UNCHANGED <<kind, stream, lines, st, entered, iters>>
    /\ UNCHANGED otherVars

Next == __init__ \/ __enter__ \/ close \/ __exit__ \/ __iter__ \/ __next__

Spec == Init /\ [][Next]_vars

\* there is no source
NoSource ==
    /\ kind = "none"
    /\ stream = "list"
    /\ lines = << >>
    /\ pos = 0
    /\ st = "none"
    /\ self = [source |-> "None"]
    /\ entered = "no"
    /\ iters = 0
    /\ gen = NoGen
    /\ advs = 0
    /\ log = << >>
    /\ rows = << >>
    /\ warnings = << >>
    /\ raised = << >>

(***************************************************************************)
(* lars.csv: CSVTarget                                                     *)
(***************************************************************************)
\* the most calls of write
MaxWrites == 3

\* the encodings of the output, and the cells that 'ascii' can encode; the
\* cell "E9" stands for the text of the one character U+00E9
Encodings == {"utf-8", "ascii"}
AsciiCells == {"a", "b", "x", "y"}

\* a tuple of cells, and a named tuple with its _fields
PlainRow(cells) == [fields |-> None, cells |-> cells]
NamedRow(fields, cells) == [fields |-> fields, cells |-> cells]

\* the rows that are written
CSVRows ==
    { PlainRow(<< >>), PlainRow(<<"a">>), PlainRow(<<"a", "b">>),
      PlainRow(<<"E9", "b">>), NamedRow(<< >>, << >>),
      NamedRow(<<"x", "y">>, <<"a", "b">>) }

\* the truth value of a row: a tuple is true when it is not empty
RowTruth(tup) == Len(tup.cells) > 0

\* ','.join(cells)
RECURSIVE Joined(_)
Joined(cells) ==
    IF Len(cells) = 0 THEN << >>
    ELSE IF Len(cells) = 1 THEN cells
    ELSE <<cells[1], ",">> \o Joined(Tail(cells))

\* writer.writerow(cells) on the file f through the encoder of encoding:
\* the cells with the delimiter between them and the line terminator after
\* them are encoded and written as one line, or nothing is written
writerow(f, encoding, cells) ==
    IF encoding = "ascii" /\ \E k \in 1..Len(cells) : cells[k] \notin AsciiCells
    THEN [exc |-> Exc("UnicodeEncodeError", "'ascii' codec can't encode character"),
          file |-> f]
    ELSE [exc |-> NoExc, file |-> Append(f, Joined(cells) \o <<"\r\n">>)]

\* the end of write: the row was given to the writer, which did w
Written(t, w) ==
    IF w.exc # NoExc THEN [exc |-> w.exc, self |-> t, file |-> w.file, data |-> FALSE]
    ELSE [exc |-> NoExc, self |-> [t EXCEPT !.count = @ + 1], file |-> w.file,
          data |-> TRUE]

\* self._writer.writerow(row) and what follows it in write
WriteRow(t, f, tup) ==
    IF t.writer = "None"
    THEN [exc |-> Exc("AttributeError", "'NoneType' object has no attribute 'writerow'"),
          self |-> t, file |-> f, data |-> FALSE]
    ELSE Written(t, writerow(f, t.encoding, tup.cells))

\* the header row was given to the writer, which did h
HeaderWritten(t, tup, h) ==
    IF h.exc # NoExc THEN [exc |-> h.exc, self |-> t, file |-> h.file, data |-> FALSE]
    ELSE WriteRow(t, h.file, tup)

\* the branch of write for the first row
FirstRow(t, f, tup) ==
    IF t.header /\ tup.fields # None THEN
        IF t.writer = "None"
        THEN [exc |-> Exc("AttributeError", "'NoneType' object has no attribute 'writerow'"),
              self |-> t, file |-> f, data |-> FALSE]
        ELSE HeaderWritten(t, tup, writerow(f, t.encoding, tup.fields))
    ELSE WriteRow(t, f, tup)

\* CSVTarget.write(row) on the attributes t and the file f: the attributes
\* and the file after it, the exception it raised, and whether the row
\* was written; << >> stands for a _first_row of None
CSVWrite(t, f, tup) ==
    IF t.first_row # << >> /\ RowTruth(t.first_row[1]) THEN
        IF Len(tup.cells) # Len(t.first_row[1].cells)
        THEN [exc |-> Exc("TypeError", "Rows must have the same number of elements"),
              self |-> t, file |-> f, data |-> FALSE]
        ELSE WriteRow(t, f, tup)
    ELSE FirstRow([t EXCEPT !.first_row = <<tup>>], f, tup)

\* CSVTarget(fileobj, header=header, encoding=encoding)
CSVTarget__init__ ==
    /\ target.state = "new"
    /\ target' = [target EXCEPT !.state = "open", !.count = 0,
                                !.first_row = << >>, !.writer = "writer"]
    /\ UNCHANGED <<fileobj, writes, csvOthers>>

\* with target: ...
CSVTarget__enter__ ==
    /\ target.state = "open"
    /\ target.with = "no"
    /\ target' = [target EXCEPT !.with = "yes"]
    /\ UNCHANGED <<fileobj, writes, csvOthers>>

\* CSVTarget.close()
CSVTarget_close ==
    /\ target.state = "open"
    /\ target.writer # "None"
    /\ target' = [target EXCEPT !.writer = "None", !.first_row = << >>]
    /\ UNCHANGED <<fileobj, writes, csvOthers>>

\* the end of the with block, which calls close()
CSVTarget__exit__ ==
    /\ target.state = "open"
    /\ target.with = "yes"
    /\ target' = [target EXCEPT !.with = "left", !.writer = "None",
                                !.first_row = << >>]
    /\ UNCHANGED <<fileobj, writes, csvOthers>>

\* the call of write gave w
Wrote(tup, w) ==
    /\ target' = w.self
    /\ fileobj' = w.file
    /\ writes' = Append(writes, [tup |-> tup, pre |-> target, post |-> w.self,
                                 before |-> fileobj, after |-> w.file,
                                 exc |-> w.exc, data |-> w.data])

\* target.write(row)
CSVTarget_write ==
    /\ target.state = "open"
    /\ Len(writes) < MaxWrites
    /\ \E tup \in CSVRows : Wrote(tup, CSVWrite(target, fileobj, tup))
    /\ UNCHANGED csvOthers

InitCSV ==
    /\ NoSource
    /\ NoMeter
    /\ NoGeo
    /\ NoTwo
    /\ \E header \in BOOLEAN, encoding \in Encodings :
           target = [state |-> "new", header |-> header, encoding |-> encoding,
                     with |-> "no", count |-> 0, first_row |-> << >>,
                     writer |-> "None"]
    /\ fileobj = << >>
    /\ writes = << >>

NextCSV ==
    \/ CSVTarget__init__ \/ CSVTarget__enter__ \/ CSVTarget_close
    \/ CSVTarget__exit__ \/ CSVTarget_write

SpecCSV == InitCSV /\ [][NextCSV]_vars

(***************************************************************************)
(* lars.progress: ProgressMeter with PercentageStyle                       *)
(***************************************************************************)
\* the most calls of the methods of a meter, and the last reading of the
\* clock
MaxCalls == 3
MaxTime == 2

\* the values that update is given, or that tell() of the file returns,
\* the length of the file, and the waits that a meter is made with
MeterValues == {0, 1, 2}
MeterTotal == 10
MeterWaits == {0, 1}

\* str(n) of a natural number
DigitChars == <<"0","1","2","3","4","5","6","7","8","9">>
RECURSIVE Decimal(_)
Decimal(n) ==
    IF n < 10 THEN <<DigitChars[n + 1]>>
    ELSE Decimal(n \div 10) \o <<DigitChars[(n % 10) + 1]>>

\* c * n
Repeat(c, n) == [k \in 1..n |-> c]

\* '%3d' % n
Pad3(n) == Repeat(" ", 3 - Len(Decimal(n))) \o Decimal(n)

\* PercentageStyle.render(value, total)
PercentageStyle(value, total) == Pad3((100 * value) \div total) \o <<"%">>

\* ProgressMeter.hide() on the attributes m and the stream out; "\\b"
\* stands for the backspace, and << >> for a _last_update of None
MeterHide(m, out) ==
    IF m.last_output # << >> THEN
        [self |-> [m EXCEPT !.last_output = << >>, !.last_update = << >>],
         stream |-> out \o Repeat("\\b", Len(m.last_output))
                        \o Repeat(" ", Len(m.last_output))
                        \o Repeat("\\b", Len(m.last_output))]
    ELSE [self |-> [m EXCEPT !.last_update = << >>], stream |-> out]

\* ProgressMeter._render()
_render(m, out) ==
    [self |-> [m EXCEPT !.last_output = PercentageStyle(m.last_value, m.total)],
     stream |-> out \o PercentageStyle(m.last_value, m.total)]

\* what follows self._render() in show() and in update()
Rendered(r, now) == [r EXCEPT !.self.last_update = <<now>>]

\* ProgressMeter.show() when time.time() returns now
MeterShow(m, out, now) == Rendered(_render(m, out), now)

\* a variant of Due that lets the update pass when exactly max_wait has
\* elapsed
DueAtWait(m, now) ==
    m.last_update = << >> \/ now >= m.last_update[1] + m.max_wait

\* the test of update for the time of the last update
Due(m, now) ==
    m.last_update = << >> \/ now > m.last_update[1] + m.max_wait

\* what follows self.hide() in update(): the meter was hidden as h
Shown(h, value, now) ==
    Rendered(_render([h.self EXCEPT !.last_value = value], h.stream), now)

\* ProgressMeter.update(value) with a value, when time.time() returns now
MeterUpdate(m, out, value, now) ==
    IF value # m.last_value /\ Due(m, now)
    THEN Shown(MeterHide([m EXCEPT !.value = value], out), value, now)
    ELSE [self |-> [m EXCEPT !.value = value], stream |-> out]

\* what follows self.hide() in __exit__
Finished(h) ==
    IF h.self.hide_on_finish THEN h
    ELSE [_render([h.self EXCEPT !.last_value = h.self.value], h.stream)
             EXCEPT !.stream = @ \o <<"\n">>]

\* the call op of the meter, with the value it was given, did r
Called(op, value, r) ==
    /\ meter' = r.self
    /\ console' = r.stream
    /\ calls' = Append(calls, [op |-> op, value |-> value, now |-> clock,
                               pre |-> meter, post |-> r.self,
                               before |-> console, after |-> r.stream])

\* ProgressMeter(fileobj, total=total, max_wait=max_wait, stream=stream,
\* style=PercentageStyle, hide_on_finish=hide_on_finish); << >> stands for
\* a total of None
Meter__init__ ==
    /\ meter.state = "new"
    /\ IF (meter.fileobj = "None") = (meter.total = << >>) THEN
           /\ meter' = [meter EXCEPT !.state = "failed"]
           /\ failed' = Append(failed, [op |-> "__init__",
                                        exc |-> Exc("ValueError", "fileobj or total")])
       ELSE
           /\ meter' = [meter EXCEPT
                  !.state = "ready",
                  !.value = 0,
                  !.total = IF meter.fileobj = "None" THEN meter.total[1]
                            ELSE MeterTotal,
                  !.last_value = 0,
                  !.last_output = << >>,
                  !.last_update = << >>]
           /\ failed' = failed
    /\ UNCHANGED <<clock, console, calls, meterOthers>>

\* with meter: ...
Meter__enter__ ==
    /\ meter.state = "ready"
    /\ meter.with = "no"
    /\ Len(calls) < MaxCalls
    /\ Called("__enter__", << >>,
              MeterShow([meter EXCEPT !.with = "yes"], console, clock))
    /\ UNCHANGED <<clock, failed, meterOthers>>

\* the end of the with block
Meter__exit__ ==
    /\ meter.state = "ready"
    /\ meter.with = "yes"
    /\ Len(calls) < MaxCalls
    /\ Called("__exit__", << >>,
              Finished(MeterHide([meter EXCEPT !.with = "left"], console)))
    /\ UNCHANGED <<clock, failed, meterOthers>>

\* meter.hide()
Meter_hide ==
    /\ meter.state = "ready"
    /\ Len(calls) < MaxCalls
    /\ Called("hide", << >>, MeterHide(meter, console))
    /\ UNCHANGED <<clock, failed, meterOthers>>

\* meter.show()
Meter_show ==
    /\ meter.state = "ready"
    /\ Len(calls) < MaxCalls
    /\ Called("show", << >>, MeterShow(meter, console, clock))
    /\ UNCHANGED <<clock, failed, meterOthers>>

\* meter.update(value), and meter.update() which takes the position of the
\* file for the value
Meter_update ==
    /\ meter.state = "ready"
    /\ Len(calls) < MaxCalls
    /\ \/ /\ \E value \in MeterValues :
                 Called("update", <<value>>,
                        MeterUpdate(meter, console, value, clock))
          /\ failed' = failed
       \/ /\ meter.fileobj # "None"
          /\ \E tell \in MeterValues :
                 Called("update", <<tell>>,
                        MeterUpdate(meter, console, tell, clock))
          /\ failed' = failed
       \/ /\ meter.fileobj = "None"
          /\ Called("update", << >>, [self |-> meter, stream |-> console])
          /\ failed' = Append(failed, [op |-> "update",
                 exc |-> Exc("AttributeError",
                             "'NoneType' object has no attribute 'tell'")])
    /\ UNCHANGED <<clock, meterOthers>>

\* time passes: time.time() returns one more
Tick ==
    /\ clock < MaxTime
    /\ clock' = clock + 1
    /\ UNCHANGED <<meter, console, calls, failed, meterOthers>>

InitMeter ==
    /\ NoSource
    /\ NoTarget
    /\ NoGeo
    /\ NoTwo
    /\ \E file \in {"None", "file"}, total \in {<< >>, <<MeterTotal>>},
          max_wait \in MeterWaits, hide_on_finish \in BOOLEAN :
           meter = [state |-> "new", fileobj |-> file, total |-> total,
                    max_wait |-> max_wait, hide_on_finish |-> hide_on_finish,
                    with |-> "no", value |-> 0, last_value |-> 0,
                    last_output |-> << >>, last_update |-> << >>]
    /\ clock = 0
    /\ console = << >>
    /\ calls = << >>
    /\ failed = << >>

NextMeter ==
    \/ Meter__init__ \/ Meter__enter__ \/ Meter__exit__ \/ Meter_hide
    \/ Meter_show \/ Meter_update \/ Tick

SpecMeter == InitMeter /\ [][NextMeter]_vars

(***************************************************************************)
(* lars.geoip: init_databases called by two threads                        *)
(***************************************************************************)
\* the global handles in the order that init_databases assigns them
Databases ==
    <<"_GEOIP_IPV4_GEO", "_GEOIP_IPV4_ISP", "_GEOIP_IPV4_ORG",
      "_GEOIP_IPV6_GEO", "_GEOIP_IPV6_ISP", "_GEOIP_IPV6_ORG">>

\* the threads that call init_databases
Callers == {"A", "B"}

\* the six filenames that a call is given, "" for one left out, with the
\* name x for every file that is given
NoFiles == <<"", "", "", "", "", "">>
V4Geo(x) == <<x, "", "", "", "", "">>
V4GeoIsp(x) == <<x, x, "", "", "", "">>
V6IspV4Isp(x) == <<"", x, "", "", x, "">>
AllFiles(x) == <<x, x, x, x, x, x>>

\* the arguments of the call of each thread
GeoArgs(x) ==
    { [files |-> NoFiles, memcache |-> TRUE],
      [files |-> V4Geo(x), memcache |-> TRUE],
      [files |-> V4GeoIsp(x), memcache |-> FALSE],
      [files |-> V6IspV4Isp(x), memcache |-> TRUE],
      [files |-> AllFiles(x), memcache |-> TRUE] }
CallerFile == [A |-> "a.dat", B |-> "b.dat"]

\* the handle of a database that is not opened
NoHandle == [file |-> "", flags |-> "None"]

\* pygeoip.GeoIP(filename, pygeoip.MEMORY_CACHE if memcache else 0)
GeoIP(filename, memcache) ==
    [file |-> filename, flags |-> IF memcache THEN "MEMORY_CACHE" ELSE "0"]

\* the test of init_databases for a call without a filename
Validate(t) ==
    /\ callers[t].pc = 0
    /\ IF \A k \in 1..Len(Databases) : callers[t].args.files[k] = ""
       THEN callers' = [callers EXCEPT ![t].pc = Len(Databases) + 1,
                        ![t].exc = Exc("ValueError",
                            "You must call init_database with a database to load")]
       ELSE callers' = [callers EXCEPT ![t].pc = 1]
    /\ UNCHANGED <<handles, geoOthers>>

\* the if statement of init_databases for the database at which the
\* thread t is
Assign(t) ==
    /\ callers[t].pc \in 1..Len(Databases)
    /\ handles' =
           IF callers[t].args.files[callers[t].pc] # ""
           THEN [handles EXCEPT ![callers[t].pc] =
                     GeoIP(callers[t].args.files[callers[t].pc],
                           callers[t].args.memcache)]
           ELSE handles
    /\ callers' = [callers EXCEPT ![t].pc = @ + 1]
    /\ UNCHANGED geoOthers

InitGeo ==
    /\ NoSource
    /\ NoTarget
    /\ NoMeter
    /\ NoTwo
    /\ handles = [k \in 1..Len(Databases) |-> NoHandle]
    /\ \E a \in GeoArgs(CallerFile["A"]), b \in GeoArgs(CallerFile["B"]) :
           callers = [A |-> [args |-> a, pc |-> 0, exc |-> NoExc],
                      B |-> [args |-> b, pc |-> 0, exc |-> NoExc]]

NextGeo == \E t \in Callers : Validate(t) \/ Assign(t)

SpecGeo == InitGeo /\ [][NextGeo]_vars

(***************************************************************************)
(* two sources whose steps are interleaved                                 *)
(***************************************************************************)
\* the two instances
Instances == {1, 2}
Other(i) == IF i = 1 THEN 2 ELSE 1

\* a variant of NewList in which the list is made once, for the class, and
\* every instance has the same one
ClassList(i) == 1

\* self.fields = [] in IISSource.__init__: the address of the new list
\* that the instance i is given for its fields
NewList(i) == i

\* the variables of the source that is running, as a record
Running ==
    [kind |-> kind, stream |-> stream, lines |-> lines, pos |-> pos, st |-> st,
     self |-> self, entered |-> entered, iters |-> iters, gen |-> gen,
     advs |-> advs, log |-> log, rows |-> rows, warnings |-> warnings,
     raised |-> raised]

\* the lists of fields as they are: the running source appends to its
\* list in place
Lists ==
    IF kind = "iis" THEN [heap EXCEPT ![NewList(current)] = self.fields]
    ELSE heap

\* the attributes that the source i, which is not running, has: its list
\* of fields is the one at its address
AttributesOf(i) ==
    IF parked.kind = "iis"
    THEN [parked.self EXCEPT !.fields = Lists[NewList(i)]]
    ELSE parked.self

\* the source that is running stops at the end of a step, and the other
\* one goes on from where it was
Switch ==
    /\ current \in Instances
    /\ current' = Other(current)
    /\ heap' = Lists
    /\ parked' = Running
    /\ kind' = parked.kind
    /\ stream' = parked.stream
    /\ lines' = parked.lines
    /\ pos' = parked.pos
    /\ st' = parked.st
    /\ self' = AttributesOf(Other(current))
    /\ entered' = parked.entered
    /\ iters' = parked.iters
    /\ gen' = parked.gen
    /\ advs' = parked.advs
    /\ log' = parked.log
    /\ rows' = parked.rows
    /\ warnings' = parked.warnings
    /\ raised' = parked.raised
    /\ UNCHANGED <<csvVars, meterVars, geoVars>>

\* the sources that are run in pairs: the source of lines, its kind and
\* the arguments of the constructor
ApacheOf(f, l, s) ==
    [kind |-> "apache", stream |-> s, lines |-> l, self |-> ApacheInit(f)]
IISOf(l, s) == [kind |-> "iis", stream |-> s, lines |-> l, self |-> IISInit]
ApacheHostSize == ApacheOf(<<"%","h"," ","%","b">>, << <<"a","b"," ","7","\n">>, <<"!"," ","7">> >>, "list")
ApacheHost == ApacheOf(<<"%","h">>, << <<"a","b","\n">> >>, "file")
IISHostPort == IISOf(FullHeader \o << <<"a","b"," ","7","\n">>, <<"!"," ","7">> >>, "list")
IISHost ==
    IISOf(<< <<"#","V","e","r","s","i","o","n",":"," ","1",".","0","\n">>, <<"#","F","i","e","l","d","s",":"," ","c","s","-","h","o","s","t","\n">>, <<"a","b","\n">> >>, "file")

\* two of the same class and one of each
PairSources ==
    { <<ApacheHostSize, ApacheHost>>, <<IISHostPort, IISHost>>,
      <<IISHost, ApacheHostSize>> }

\* the source p before it is constructed
Fresh(p) ==
    [kind |-> p.kind, stream |-> p.stream, lines |-> p.lines, pos |-> 0,
     st |-> "new", self |-> p.self, entered |-> "no", iters |-> 0,
     gen |-> NoGen, advs |-> 0, log |-> << >>, rows |-> << >>,
     warnings |-> << >>, raised |-> << >>]

InitTwo ==
    /\ \E p \in PairSources :
           /\ kind = p[1].kind
           /\ stream = p[1].stream
           /\ lines = p[1].lines
           /\ self = p[1].self
           /\ parked = Fresh(p[2])
    /\ InitCommonSource
    /\ current = 1
    /\ heap = [i \in Instances |-> << >>]
    /\ NoTarget
    /\ NoMeter
    /\ NoGeo

NextTwo ==
    \/ __init__ \/ __enter__ \/ close \/ __exit__ \/ __iter__ \/ __next__
    \/ Switch

SpecTwo == InitTwo /\ [][NextTwo]_vars

(***************************************************************************)
(* Properties of the sources                                               *)
(***************************************************************************)
\* every line that a source may hold
SourceLines ==
    ApacheLines \cup TrailingLines \cup IISLines \cup IISDataLines
        \cup RemarkLines \cup DateLines \cup TimeLines \cup FieldsLines
        \cup UNION {{h[k] : k \in DOMAIN h} : h \in IISHeaders \cup FieldsHeaders}

\* the row pattern, the parsers and the row type of the attributes me
Compiled(me) == <<me.row_pattern, me.row_funcs, me.row_type>>

\* what the LogFormat strings tried with lines, and the #Fields lines, are
\* compiled to, each with the case folding of its matching
CompiledFormats ==
    { <<Compiled(_parse_log_format(f)), TRUE>> :
          f \in DataFormats \cup DecoratedDataFormats \cup TimeFormats }
    \cup { <<Compiled(_process_directive(IISInit, Rstrip(h[2])).self), FALSE>> :
              h \in FieldsHeaders }

\* the match of the row pattern of c on the line l
MatchOn(c, l) == RowMatch(c[1][1], Rstrip(l), c[2])

\* the parsers of c, called as __iter__ calls them on the match m
ParsedOn(c, m) == ParseValues(c[1][2], GroupValues(m, Len(c[1][3])))

\* each of them and each line, with whether the line matches and a parser
\* raises ValueError on it
ParserRaisedOn ==
    { <<x[1], x[2], /\ MatchOn(x[1], x[2]).ok
                    /\ ParsedOn(x[1], MatchOn(x[1], x[2])).exc.type = "ValueError">> :
          x \in CompiledFormats \X SourceLines }

\* the warnings and the rows that the line of the event e gave
WarningsFor(e) ==
    {j \in 1..Len(warnings) :
        warnings[j].gen = e.gen /\ warnings[j].index = e.index}
RowsFor(e) ==
    {j \in 1..Len(rows) : rows[j].gen = e.gen /\ rows[j].index = e.index}

\* the line of the event e was raised as an exception to the caller
RaisedFor(e) ==
    /\ e.out = "raise"
    /\ \E k \in 1..Len(raised) :
           raised[k].op = "__next__" /\ raised[k].exc = e.exc

\* the iterator of the event e went on to the line after it, if there is one
WentOn(e) ==
    e.index + 1 < Len(lines) =>
        \E k \in 1..Len(log) :
            /\ log[k].gen = e.gen
            /\ log[k].adv = e.adv
            /\ log[k].index = e.index + 1

\* the line of the event e is a line of data
DataLine(e) == ~StartsWith(e.line, <<"#">>)

\* the row pattern was tried on the line of the event e
Tried(e) ==
    IF kind = "apache" THEN e.pre.row_pattern # NonePattern
    ELSE /\ DataLine(e)
         /\ e.pre.version # None
         /\ e.pre.fields # << >>
         /\ e.pre.row_pattern # NonePattern
         /\ e.pre.row_type # NoneType

\* the match of the row pattern on the line of the event e
MatchFor(e) == RowMatch(e.pre.row_pattern, Rstrip(e.line), kind = "apache")

\* the line of the event e matches the row pattern and every parser takes
\* the text of its field
ValidLine(e) ==
    /\ Tried(e)
    /\ MatchFor(e).ok
    /\ LET groups == MatchFor(e).groups
       IN  /\ Len(groups) = Len(e.pre.row_funcs)
           /\ \A k \in 1..Len(groups) :
                  CallParser(e.pre.row_funcs[k], groups[k]).exc = NoExc

\* C1, the warning: a line of data that does not match the row pattern
\* gives exactly one warning, which has the position of the line in the
\* stream counted from one, and gives no row
OneWarningWithPosition(e) ==
    /\ e.out = "warning"
    /\ Cardinality(WarningsFor(e)) = 1
    /\ \A j \in WarningsFor(e) : warnings[j].exc.line_number = e.index + 1
    /\ RowsFor(e) = {}

\* C1, the lines after: every valid line that the iterator reads after the
\* event e is yielded as a row
LaterValidYielded(e) ==
    \A k \in 1..Len(log) :
        (log[k].gen = e.gen /\ log[k].index > e.index /\ ValidLine(log[k]))
            => (log[k].out = "row" /\ RowsFor(log[k]) # {})

\* C1: for ApacheSource and IISSource, a line of data that does not match
\* the compiled row pattern gives exactly one warning whose text has the
\* 1-based position of the line in the stream (every line counted, the
\* '#' lines of IIS too), gives no row, and the iteration goes on with the
\* next line, so that every later valid line is still yielded
C1_NonMatchingLineWarns ==
    \A i \in 1..Len(log) :
        (Tried(log[i]) /\ ~MatchFor(log[i]).ok) =>
            /\ OneWarningWithPosition(log[i])
            /\ WentOn(log[i])
            /\ LaterValidYielded(log[i])

\* the parsers, called as __iter__ calls them on the match of the line of
\* the event e
ParsedFor(e) ==
    ParseValues(e.pre.row_funcs, GroupValues(MatchFor(e), Len(e.pre.row_type)))

\* the line of the event e matched and a parser raised ValueError on it
ParserRaised(e) ==
    /\ Tried(e)
    /\ IF <<Compiled(e.pre), kind = "apache">> \in CompiledFormats
       THEN <<<<Compiled(e.pre), kind = "apache">>, e.line, TRUE>> \in ParserRaisedOn
       ELSE MatchFor(e).ok /\ ParsedFor(e).exc.type = "ValueError"

\* C2: for ApacheSource and IISSource, when a line matches the row pattern
\* but a field parser raises ValueError, the line is reported as exactly
\* one warning and never as a raised error, no row is yielded for it, and
\* the iteration goes on with the next line
C2_ParserErrorWarns ==
    \A i \in 1..Len(log) :
        ParserRaised(log[i]) =>
            /\ log[i].out = "warning"
            /\ Cardinality(WarningsFor(log[i])) = 1
            /\ RowsFor(log[i]) = {}
            /\ \A k \in 1..Len(raised) : raised[k].exc # log[i].exc
            /\ WentOn(log[i])

\* a line matched, a parser raised ValueError on it, the warning was given
\* and the line after it was read
C2_Witness ==
    \E i \in 1..Len(log) :
        /\ ParserRaised(log[i])
        /\ Cardinality(WarningsFor(log[i])) = 1
        /\ i < Len(log)
        /\ log[i + 1].gen = log[i].gen
        /\ log[i + 1].index = log[i].index + 1

\* C3: in every reachable state of a source, count is the number of rows
\* that the source has yielded so far
C3_CountIsRowsYielded == self.count = Len(rows)

\* the directive that _process_directive finds in each of them, as its
\* place in Directives
DirectiveTable == { <<l, DirectiveOf(Rstrip(l))>> : l \in SourceLines }

\* the line of the event e is the directive that is the k-th of Directives
IsDirective(e, k) ==
    StartsWith(e.line, <<"#">>) /\ <<e.line, k>> \in DirectiveTable

\* a #Version (a #Fields) directive was processed before the i-th event
VersionBefore(i) == \E j \in 1..(i - 1) : IsDirective(log[j], 1)
FieldsBefore(i) == \E j \in 1..(i - 1) : IsDirective(log[j], 4)

\* no row was yielded before the i-th event
NoRowBefore(i) == \A j \in 1..(i - 1) : log[j].out # "row"

\* C4: for IISSource, a line of data that arrives before a #Version
\* directive has been processed raises IISVersionError, and one that
\* arrives after #Version but before any #Fields directive raises
\* IISFieldsError; either is raised before any row has been yielded
C4_DataBeforeHeaders ==
    kind = "iis" =>
        \A i \in 1..Len(log) :
            /\ (DataLine(log[i]) /\ ~VersionBefore(i)) =>
                   /\ RaisedFor(log[i])
                   /\ log[i].exc.type = "IISVersionError"
                   /\ NoRowBefore(i)
            /\ (DataLine(log[i]) /\ VersionBefore(i) /\ ~FieldsBefore(i)) =>
                   /\ RaisedFor(log[i])
                   /\ log[i].exc.type = "IISFieldsError"
                   /\ NoRowBefore(i)

\* a line of data was read after a #Version and before any #Fields, and
\* IISFieldsError was raised for it
C4_Witness ==
    /\ kind = "iis"
    /\ \E i \in 1..Len(log) :
           /\ DataLine(log[i])
           /\ VersionBefore(i)
           /\ ~FieldsBefore(i)
           /\ RaisedFor(log[i])
           /\ log[i].exc.type = "IISFieldsError"

\* the row format of the attributes me
RowFormat(me) == <<me.row_pattern, me.row_type, me.row_funcs, me.fields>>

\* the row format that the i-th event left
RowFormatAfter(i) ==
    IF i < Len(log) THEN RowFormat(log[i + 1].pre) ELSE RowFormat(self)

\* the i-th event is a #Fields directive that was processed
FieldsProcessed(i) == IsDirective(log[i], 4) /\ log[i].out = "directive"

\* C5: for IISSource, the row format is made exactly once for a source:
\* after one #Fields directive has been processed, every later #Fields
\* directive raises IISFieldsError, and the row pattern, the row type, the
\* list of parsers and the list of fields never change again
C5_RowFormatMadeOnce ==
    kind = "iis" =>
        \A i \in 1..Len(log) :
            FieldsProcessed(i) =>
                \A j \in (i + 1)..Len(log) :
                    /\ IsDirective(log[j], 4) =>
                           /\ RaisedFor(log[j])
                           /\ log[j].exc.type = "IISFieldsError"
                    /\ RowFormatAfter(j) = RowFormatAfter(i)

\* '#Version:' and any text: a #Version directive, whatever its value
VersionLine == << DirectiveStart(<<"V","e","r","s","i","o","n">>), AnyText, Eol >>

\* the match of VersionLine on the line of the event e
VersionMatch(e) == MatchParts(VersionLine, 1, Rstrip(e.line), 0, TRUE)

\* the value of the #Version directive that matched as m
VersionValue(e, m) == PartText(Rstrip(e.line), m.b, 2)

\* C6: for IISSource, a #Version directive whose value is anything other
\* than "1.0" raises IISVersionError, and a #Version directive processed
\* when a version has already been recorded raises IISVersionError,
\* whatever its value
C6_VersionRejected ==
    kind = "iis" =>
        \A i \in 1..Len(log) :
            (VersionMatch(log[i]).ok
             /\ (VersionValue(log[i], VersionMatch(log[i])) # <<"1",".","0">>
                 \/ log[i].pre.version # None)) =>
                /\ RaisedFor(log[i])
                /\ log[i].exc.type = "IISVersionError"

\* C7: for IISSource, a line that starts with '#' and matches none of the
\* seven directive patterns raises IISDirectiveError, wherever it is in
\* the stream, and yields no row
C7_UnknownDirectiveRaises ==
    kind = "iis" =>
        \A i \in 1..Len(log) :
            IsDirective(log[i], 0) =>
                /\ RaisedFor(log[i])
                /\ log[i].exc.type = "IISDirectiveError"
                /\ RowsFor(log[i]) = {}
                /\ WarningsFor(log[i]) = {}

\* a '#' line that is no directive was read after a row had been yielded,
\* and IISDirectiveError was raised for it
C7_Witness ==
    /\ kind = "iis"
    /\ \E i \in 1..Len(log) :
           /\ IsDirective(log[i], 0)
           /\ log[i].line = <<"#","F","o","o",":"," ","B","a","r","\n">>
           /\ RaisedFor(log[i])
           /\ ~NoRowBefore(i)

\* the field specifications of a LogFormat string, in order
FieldSpecs(log_format) ==
    LET pieces == Split1(log_format, 0, 0)
    IN  [k \in 1..(Len(pieces) \div 2) |-> pieces[2 * k]]

\* every field specification of the LogFormat string has a name, and two
\* of them have the same
NamesTwice(log_format) ==
    LET fields == [k \in 1..Len(FieldSpecs(log_format)) |->
                      _parse_log_field(FieldSpecs(log_format)[k])]
    IN  /\ \A k \in 1..Len(fields) : fields[k].exc = NoExc
        /\ \E j, k \in 1..Len(fields) :
               j < k /\ fields[j].part.name = fields[k].part.name

\* every LogFormat string that a source is made with
LogFormats ==
    DataFormats \cup DecoratedDataFormats \cup RejectedFormats \cup BareFormats
        \cup TimeFormats

\* each of them with whether it names a field twice
NamedTwice == { <<f, NamesTwice(f)>> : f \in LogFormats }

\* construction raised an exception of the type and nothing was read from
\* the source, nor yielded, nor warned of
ConstructionRaised(types) ==
    /\ st = "failed"
    /\ Len(raised) = 1
    /\ raised[1].op = "__init__"
    /\ raised[1].exc.type \in types
    /\ pos = 0
    /\ log = << >>
    /\ rows = << >>
    /\ warnings = << >>
    /\ iters = 0

\* C8: for ApacheSource, if two field specifications of the format string
\* give the same field name (%b and %B, or two names that are sanitized to
\* the same identifier), construction raises an error (ValueError), before
\* any line of the source has been read
C8_RepeatedNameRejected ==
    (kind = "apache" /\ st # "new" /\ <<self.log_format, TRUE>> \in NamedTwice) =>
        ConstructionRaised({"ValueError"})

\* construction was refused for two cookies whose names are sanitized to
\* the same identifier, with lines waiting in the source
C8_Witness ==
    /\ kind = "apache"
    /\ st = "failed"
    /\ self.log_format = <<"%","{","a","-","b","}","C"," ","%","{","a","_","b","}","C">>
    /\ NamesTwice(self.log_format)
    /\ lines # << >>

\* C9: for ApacheSource, a format string with an unknown suffix letter, a
\* suffix C, e, i, n or o with a missing or empty name, a %{x}p or %{x}P
\* whose x is not allowed, or a time format with an unsupported directive
\* makes construction raise, so that no line is consumed from the source
\* and no row or warning is ever produced
C9_InvalidFormatRejected ==
    (/\ kind = "apache"
     /\ st # "new"
     /\ self.log_format \in UnknownSuffixFormats \cup MissingNameFormats
                               \cup UnknownKeyFormats \cup UnknownTimeFormats) =>
        ConstructionRaised({"ValueError"})

\* construction was refused for a port that there is not, with lines
\* waiting in the source
C9_Witness ==
    /\ kind = "apache"
    /\ st = "failed"
    /\ self.log_format = <<"%","{","f","o","o","}","p">>
    /\ Len(lines) = MaxLines
    /\ raised # << >>

\* C10: for ApacheSource, every format string of the documented table
\* compiles to the documented field name (bare %p and %{canonical}p give
\* port, bare %P and %{pid}P give pid, and so on), and a format that is
\* one of them alone is constructed
C10_DocumentedNames ==
    (kind = "apache" /\ st # "new") =>
        \A d \in DocumentedNames :
            self.log_format = d[1] =>
                /\ st = "ready"
                /\ self.row_type = <<d[2]>>

\* each decorated LogFormat string with what the LogFormat string that is
\* left without the decorations is compiled to
UndecoratedParsed ==
    { <<d[1], _parse_log_format(d[2])>> : d \in DecoratedFormats }

\* what the LogFormat string that is left of the decorated one is compiled to
Undecorated(log_format) ==
    (CHOOSE d \in UndecoratedParsed : d[1] = log_format)[2]

\* construction did what compiling the format to f does: the same error,
\* or the same row pattern, parsers and row type
ConstructedAs(f) ==
    IF f.exc = NoExc
    THEN /\ st = "ready"
         /\ self.row_pattern = f.row_pattern
         /\ self.row_funcs = f.row_funcs
         /\ self.row_type = f.row_type
    ELSE /\ st = "failed"
         /\ raised = <<[op |-> "__init__", exc |-> f.exc]>>

\* every line read was dealt with as the format compiled to f deals with it
LinesReadAs(f) ==
    \A i \in 1..Len(log) :
        LET o == RowOutcome(f.row_pattern, f.row_funcs, f.row_type,
                            Rstrip(log[i].line), TRUE)
        IN  /\ log[i].out = o.kind
            /\ log[i].values = o.values

\* C11: for ApacheSource, the status code filter (with or without '!') and
\* the '<' or '>' of a field specification are ignored: with and without
\* them the specification compiles to the same field name, the same
\* pattern and the same parser, and the sources accept the same lines and
\* yield the same rows
C11_DecorationsIgnored ==
    (/\ kind = "apache"
     /\ st # "new"
     /\ \E d \in DecoratedFormats : d[1] = self.log_format) =>
        /\ ConstructedAs(Undecorated(self.log_format))
        /\ LinesReadAs(Undecorated(self.log_format))

\* a source made with a filter and a modifier in its format has yielded a
\* row and given a warning
C11_Witness ==
    /\ kind = "apache"
    /\ self.log_format = <<"%",">","h"," ","%","!","2","0","0",",","3","0","4","b">>
    /\ rows # << >>
    /\ warnings # << >>

\* C12: for ApacheSource and IISSource with n >= 1 fields, n = 1 as well,
\* every row yielded has exactly n values in the order of the fields, and
\* the i-th value is the i-th parser applied to the whole text that the
\* group of the i-th field matched
C12_RowValuesAreParsedGroups ==
    \A j \in 1..Len(rows) :
        LET e == rows[j]
            groups == MatchFor(e).groups
        IN  /\ Len(e.pre.row_type) >= 1
            /\ Len(e.values) = Len(e.pre.row_type)
            /\ Len(groups) = Len(e.pre.row_type)
            /\ \A k \in 1..Len(e.values) :
                   e.values[k] = CallParser(e.pre.row_funcs[k], groups[k]).val

\* the whole line of the event e, from its first character to its last,
\* matches the row pattern
WholeLineMatches(e) ==
    RowMatch(<<BolPart>> \o e.pre.row_pattern \o <<EolPart>>, Rstrip(e.line),
             kind = "apache").ok

\* C13: for ApacheSource and IISSource, the row pattern is anchored at both
\* ends: a line gives a row only if the whole line, without its line end,
\* matches the format, and a line that is a complete match followed by
\* more text gives a warning and no row
C13_RowPatternAnchored ==
    \A i \in 1..Len(log) :
        Tried(log[i]) =>
            /\ log[i].out = "row" => WholeLineMatches(log[i])
            /\ (MatchFor(log[i]).ok /\ ~WholeLineMatches(log[i])) =>
                   (log[i].out = "warning" /\ RowsFor(log[i]) = {})

\* the lines that the advance a of an iterator read, as places in log
AdvEvents(a) == {i \in 1..Len(log) : log[i].adv = a}

\* C14 as it is claimed: for ApacheSource and IISSource, each single
\* advance of the iterator gives at most one outcome (one row, or one
\* warning, or one raised error) and reads one line of the line source
\* before control returns to the caller (no line when none is left)
C14_OneLinePerAdvance ==
    \A a \in 1..advs : Cardinality(AdvEvents(a)) <= 1

\* the advance that read line i of log ended with that line
LastOfAdvance(i) == \A k \in AdvEvents(log[i].adv) : k <= i

\* C14 amended: each single advance of the iterator returns control with
\* at most one row or one raised error.  Before that it reads lines one
\* after another, every line read gives exactly one outcome (a row, a
\* warning, a raised error or, for IISSource, a directive that is
\* processed), and the advance goes on past every line that gives a
\* warning or is a directive: it ends only with a row, with a raised
\* error, or with the last line of the source
C14_AdvanceEndsAtRowOrError ==
    \A i \in 1..Len(log) :
        /\ log[i].out \in {"row", "warning", "directive", "raise"}
        /\ Cardinality(RowsFor(log[i])) = IF log[i].out = "row" THEN 1 ELSE 0
        /\ Cardinality(WarningsFor(log[i])) =
               IF log[i].out = "warning" THEN 1 ELSE 0
        /\ log[i].out = "raise" => RaisedFor(log[i])
        /\ log[i].out \in {"row", "raise"} => LastOfAdvance(i)
        /\ log[i].out \in {"warning", "directive"} =>
               IF LastOfAdvance(i) THEN log[i].index + 1 = Len(lines)
               ELSE /\ log[i + 1].adv = log[i].adv
                    /\ log[i + 1].gen = log[i].gen
                    /\ log[i + 1].index = log[i].index + 1

\* one advance read a line that gave a warning and then a line that gave
\* a row, and the advance after it read a line as well
C14_Witness ==
    \E i \in 1..Len(log) :
        /\ i + 2 <= Len(log)
        /\ log[i].out = "warning"
        /\ log[i + 1].adv = log[i].adv
        /\ log[i + 1].out = "row"
        /\ log[i + 2].adv = log[i].adv + 1

\* the source was closed: close() was called, or a with block was left
Closed == (kind = "apache" /\ self.source = "None") \/ entered = "left"

\* the iterator in use has a line to read
HasLine == (IF stream = "list" THEN gen.num ELSE pos) < Len(lines)

\* C15: for ApacheSource and IISSource, once a source was closed (by
\* close() or by leaving its with block), every advance of an iterator of
\* it yields no row, and raises an error when the line source still has a
\* line for it
C15_ClosedSourceRaises ==
    [][(Closed /\ advs' = advs + 1) =>
           /\ rows' = rows
           /\ HasLine => Len(raised') = Len(raised) + 1]_vars

\* the iterator g read the lines of the source to the last one
Consumed(g) ==
    \E i \in 1..Len(log) : log[i].gen = g /\ log[i].index + 1 = Len(lines)

\* the places in the source of its valid lines of data, once they were read
ValidIndices == {log[i].index : i \in {k \in 1..Len(log) : ValidLine(log[k])}}

\* C16: for ApacheSource and IISSource over any line source, a list as
\* well, after one iterator has read the source to its end a later iterator
\* of the same source never yields a row that was yielded before, and count
\* never exceeds the number of valid lines of data in the source
C16_NoRowsAgain ==
    \A g \in 1..iters :
        Consumed(g) =>
            /\ \A j1, j2 \in 1..Len(rows) :
                   (rows[j1].gen = g /\ rows[j2].gen > g) =>
                       rows[j1].index # rows[j2].index
            /\ self.count <= Cardinality(ValidIndices)

\* C17: for ApacheSource and IISSource, every exception that the iterator
\* raises for a line (a ValueError of a parser is a warning and not
\* raised) has the number of the line in the source, counted from one, and
\* the text of the line as it was read, set once
C17_RaisedWithLine ==
    \A i \in 1..Len(log) :
        log[i].out = "raise" =>
            /\ log[i].exc.line_number = log[i].index + 1
            /\ log[i].exc.line = log[i].line

\* '#', a name, ':' and the text of a directive
NamedText ==
    << Cat(<<Bol, Lit(<<"#">>), Star(NotChr({":"})), Lit(<<":">>), WsStar>>),
       AnyText, Eol >>

\* each line with the text that follows the name of its directive
DirectiveTexts ==
    { <<l, PartText(Rstrip(l), MatchParts(NamedText, 1, Rstrip(l), 0, TRUE).b, 2)>> :
          l \in {x \in SourceLines : StartsWith(x, <<"#">>)} }
TextOf(line) == (CHOOSE x \in DirectiveTexts : x[1] = line)[2]

\* the software and the remark that the i-th event left
SoftwareAfter(i) ==
    IF i < Len(log) THEN log[i + 1].pre.software ELSE self.software
RemarkAfter(i) ==
    IF i < Len(log) THEN log[i + 1].pre.remark ELSE self.remark

\* C18: for IISSource, after a #Software directive is processed the
\* software attribute is the text of the directive, and after a #Remark
\* directive is processed the remark attribute is the text of the
\* directive, so that each holds the text of the last such directive
C18_SoftwareAndRemarkKept ==
    \A i \in 1..Len(log) :
        log[i].out = "directive" =>
            /\ IsDirective(log[i], 2) => SoftwareAfter(i) = TextOf(log[i].line)
            /\ IsDirective(log[i], 3) => RemarkAfter(i) = TextOf(log[i].line)

\* the line of the event e is a #Start-Date, an #End-Date or a #Date
\* directive
DateDirective(e) ==
    IsDirective(e, 5) \/ IsDirective(e, 6) \/ IsDirective(e, 7)

\* the date and time written in a line, read from its digits: the year,
\* month and day as one number and the six digits of the time
WrittenDate(l) ==
    DateTimeVal(IntOf(SubSeq(SelectSeq(l, LAMBDA c : c \in Digits), 1, 8)),
                IntOf(SubSeq(SelectSeq(l, LAMBDA c : c \in Digits), 9, 14)))

\* each line of DateLines with the date and time written in it
WrittenDates == { <<l, WrittenDate(l)>> : l \in DateLines \ { <<"a","b"," ","7","\n">> } }
WhenOf(line) == (CHOOSE x \in WrittenDates : x[1] = line)[2]

\* each compiled format and each line, with what the loop of __iter__ makes
\* of the line
OutcomesOn ==
    { <<x[1], x[2], Matched(x[1][1][2], x[1][1][3], MatchOn(x[1], x[2]))>> :
          x \in CompiledFormats \X SourceLines }

\* the event e did with its line what the row format of me does with it
ParsedAs(e, me) ==
    \E x \in OutcomesOn :
        /\ x[1] = <<Compiled(me), kind = "apache">>
        /\ x[2] = e.line
        /\ e.out = x[3].kind
        /\ e.values = x[3].values

\* the attributes me with the date and time when assigned as the k-th
\* directive assigns it
WithDate(me, k, when) ==
    CASE k = 5 -> [me EXCEPT !.start = when]
      [] k = 6 -> [me EXCEPT !.finish = when]
      [] k = 7 -> [me EXCEPT !.date = when]

\* the i-th event is the k-th directive, and it was processed
DateProcessed(i, k) == log[i].out = "directive" /\ IsDirective(log[i], k)

\* C19: for IISSource, a #Start-Date, #End-Date or #Date directive that is
\* processed, before or after lines of data, sets the start, the finish or
\* the date attribute and nothing else (version, fields, the row format,
\* count and the other attributes are as before), so that date is that of
\* the last #Date processed; it yields no row, and the lines of data after
\* it are parsed as the row format before it parses them
C19_DateDirectivesSetDatesOnly ==
    \A i \in 1..Len(log) : \A k \in {5, 6, 7} :
        DateProcessed(i, k) =>
            /\ log[i].post = WithDate(log[i].pre, k, WhenOf(log[i].line))
            /\ RowsFor(log[i]) = {}
            /\ (k = 7 /\ \A j \in (i + 1)..Len(log) : ~DateProcessed(j, 7)) =>
                   self.date = WhenOf(log[i].line)
            /\ \A j \in (i + 1)..Len(log) :
                   (log[j].gen = log[i].gen /\ DataLine(log[j])) =>
                       ParsedAs(log[j], log[i].pre)

\* a row was yielded, then a #Date directive was processed, and then the
\* next line of data was yielded as a row
C19_Witness ==
    \E i \in 1..Len(log) :
        /\ i + 2 <= Len(log)
        /\ log[i].out = "row"
        /\ DateProcessed(i + 1, 7)
        /\ log[i + 1].post.date # log[i + 1].pre.date
        /\ log[i + 2].out = "row"
        /\ log[i + 2].gen = log[i].gen

\* the format that the default layout of a timestamp is written in
DefaultTimeFormat == <<"[","%","d","/","%","b","/","%","Y",":","%","H",":","%","M",":","%","S"," ","%","z","]">>

\* each timestamp with the date and the time of day that it stands for in
\* UTC, worked out by hand: the written date and time less the offset
WrittenTimes ==
    { << <<"[","2","5","/","D","e","c","/","1","9","9","8",":","1","7",":","4","5",":","3","5"," ","+","0","0","0","0","]">>, 19981225, 174535 >>,
      << <<"[","2","5","/","D","e","c","/","1","9","9","8",":","1","7",":","4","5",":","3","5"," ","+","0","1","0","0","]">>, 19981225, 164535 >>,
      << <<"[","4","/","D","e","c","/","2","0","0","1",":","2","3",":","5","9",":","5","9"," ","-","0","5","0","0","]">>, 20011205, 45959 >>,
      << <<"[","4","/","D","e","c","/","2","0","0","1",":","2",":","9",":","5"," ","-","0","5","0","0","]">>, 20011204, 70905 >>,
      << <<"[","1","/","M","a","r","/","2","0","0","0",":","0",":","3","0",":","0","0"," ","+","0","1","0","0","]">>, 20000229, 233000 >>,
      << <<"[","0","1","/","M","a","r","/","2","0","0","1",":","0","0",":","3","0",":","0"," ","+","0","5","3","0","]">>, 20010228, 190000 >>,
      << <<"[","3","1","/","D","e","c","/","1","9","9","9",":","2","3",":","5","9",":","5","9"," ","-","2","3","5","9","]">>, 20000101, 235859 >>,
      << <<"[","1","/","J","a","n","/","2","0","0","0",":","0",":","0",":","0"," ","+","2","3","5","9","]">>, 19991231, 100 >> }

\* the row e was made of a line with a timestamp in the default layout
TimeRow(e) == e.pre.row_funcs[1] = "_time_parse_common"

\* each line with a timestamp, with the text that the field of the time
\* matches in it and with what _time_parse_format makes of that text
TimeTexts ==
    { <<l, RowMatch(_parse_log_format(<<"%","t"," ","%","b">>).row_pattern, Rstrip(l), TRUE).groups[1],
        _time_parse_format(
            RowMatch(_parse_log_format(<<"%","t"," ","%","b">>).row_pattern, Rstrip(l), TRUE).groups[1],
            DefaultTimeFormat)>> : l \in TimeLines }

\* C20: for every timestamp in the default layout of Apache with fields in
\* range, of one or of two digits, _time_parse_common returns the naive
\* timestamp of the written date and time less the signed offset of
\* HH * 60 + MM minutes, the date carried over where needed, and
\* _time_parse_format with the format '[%d/%b/%Y:%H:%M:%S %z]' returns the
\* same value for the same text
C20_TimeParsersAgree ==
    \A j \in 1..Len(rows) :
        TimeRow(rows[j]) =>
            \E x \in TimeTexts, w \in WrittenTimes :
                /\ x[1] = rows[j].line
                /\ w[1] = x[2]
                /\ rows[j].values[1] = DateTimeVal(w[2], w[3])
                /\ x[3] = Ok(rows[j].values[1])

\* a row was made of a timestamp whose day, hour, minute and second have
\* one digit each, and its value is the time five hours later
C20_Witness ==
    \E j \in 1..Len(rows) :
        /\ TimeRow(rows[j])
        /\ rows[j].line = <<"[","4","/","D","e","c","/","2","0","0","1",":","2",":","9",":","5"," ","-","0","5","0","0","]"," ","7","\n">>
        /\ rows[j].values[1] = DateTimeVal(20011204, 70905)

\* each #Fields directive with the output names of its fields, in order
OutputNames ==
    { <<x[1], [k \in DOMAIN FindAll(x[2], 0) |->
                   FieldInfo(FindAll(x[2], 0)[k]).python_name]>> :
          x \in {y \in DirectiveTexts : <<y[1], 4>> \in DirectiveTable} }

\* two of the names are the same
Repeats(names) == \E j, k \in DOMAIN names : j < k /\ names[j] = names[k]

\* the #Fields directives in which two fields have the same output name
RepeatedFields == { x[1] : x \in {y \in OutputNames : Repeats(y[2])} }

\* C22: for IISSource, whenever two field tokens of one #Fields directive
\* resolve to the same output field name (the same original name, or
\* different original names that sanitize to the same identifier, such as
\* c-ip and c_ip), processing the directive raises IISFieldsError before
\* the row pattern is compiled
C22_DuplicateFieldsRejected ==
    kind = "iis" =>
        \A i \in 1..Len(log) :
            (log[i].line \in RepeatedFields /\ log[i].pre.fields = << >>) =>
                /\ RaisedFor(log[i])
                /\ log[i].exc.type = "IISFieldsError"
                /\ log[i].post.row_pattern = NonePattern

\* the format strings that the module supplies
Presets == { COMMON, COMMON_VHOST, COMBINED, REFERER, USER_AGENT }

\* the number of '%' written in the format f
Specifiers(f) == Cardinality({k \in 1..Len(f) : f[k] = "%"})

\* C23: for ApacheSource, each supplied preset format string (COMMON,
\* COMMON_VHOST, COMBINED, REFERER, USER_AGENT) constructs without error,
\* and every specifier introduced by '%' in the preset becomes exactly one
\* row field; no '%' specifier is silently treated as the literal text of a
\* separator
C23_PresetsCompile ==
    (kind = "apache" /\ self.log_format \in Presets) =>
        /\ st # "failed"
        /\ st = "ready" =>
               /\ Len(self.row_type) = Specifiers(self.log_format)
               /\ Len(self.row_funcs) = Specifiers(self.log_format)

\* a #Fields directive that names a field was processed before the i-th
\* event
NamedFieldsBefore(i) ==
    \E k \in 1..(i - 1) : FieldsProcessed(k) /\ log[k].post.fields # << >>

\* C27: for IISSource, over any sequence of lines and any number of
\* iterations of the same source (a new iteration started after an earlier
\* one ended with a fatal error included), a row is yielded only if the
\* recorded version is "1.0" and a #Fields directive with at least one
\* field has been processed successfully earlier
C27_RowsNeedVersionAndFields ==
    kind = "iis" =>
        \A i \in 1..Len(log) :
            log[i].out = "row" =>
                /\ log[i].pre.version = <<"1",".","0">>
                /\ NamedFieldsBefore(i)

\* IISDirectiveError and its subclasses
DirectiveErrors == {"IISDirectiveError", "IISFieldsError", "IISVersionError"}

\* C28: for IISSource, every failure while processing a line that starts
\* with '#' (an unrecognized directive, a bad or repeated version, a
\* repeated or invalid #Fields, a date directive whose digits are not a
\* valid date or time) escapes the iteration as an IISDirectiveError or one
\* of its subclasses; no exception of another type escapes from the
\* processing of a directive line
C28_DirectiveErrorsOnly ==
    kind = "iis" =>
        \A i \in 1..Len(log) :
            (StartsWith(log[i].line, <<"#">>) /\ log[i].out = "raise") =>
                /\ RaisedFor(log[i])
                /\ log[i].exc.type \in DirectiveErrors

\* the type tags that a field can be given: those of FIELD_TYPES, and
\* 'string' and 'url', the default and the tags of the headers
TypeTags == { FIELD_TYPES[x] : x \in DOMAIN FIELD_TYPES } \cup {"string", "url"}

\* the row format was made by the i-th event
Compiles(i) ==
    /\ log[i].out = "directive"
    /\ log[i].post.row_pattern # NonePattern
    /\ log[i].post.row_type # NoneType
    /\ log[i].post.row_funcs # NoneFuncs

\* C29: for IISSource, the type tables are total: every type tag that
\* FIELD_TYPES can assign to an identifier, and the 'string' and 'url' tags
\* used as defaults and for headers, has an entry in TYPES, so a #Fields
\* directive made of any identifiers with pairwise distinct output names
\* compiles successfully
C29_TypeTablesTotal ==
    kind = "iis" =>
        \A i \in 1..Len(log) :
            (/\ IsDirective(log[i], 4)
             /\ log[i].pre.fields = << >>
             /\ log[i].line \notin RepeatedFields) =>
                /\ TypeTags \subseteq DOMAIN IIS_TYPES
                /\ Compiles(i)

\* the attributes of me that a directive may set for the rows
RowState(me) ==
    <<me.version, me.fields, me.row_pattern, me.row_type, me.row_funcs, me.count>>

\* the event e is a #Version or a #Fields directive that was rejected with
\* an error of the source
Rejected(e) ==
    /\ IsDirective(e, 1) \/ IsDirective(e, 4)
    /\ e.out = "raise"
    /\ e.exc.type \in {"IISVersionError", "IISFieldsError"}

\* C30: for IISSource, when a directive is rejected with a fatal error (a
\* #Version with an unsupported value, or a #Fields directive containing a
\* duplicate field name), the state of the source is left as it was before
\* the directive: version, fields, the compiled row pattern, row type,
\* parser list and count are all unchanged
C30_RejectedDirectiveKeepsState ==
    kind = "iis" =>
        \A i \in 1..Len(log) :
            Rejected(log[i]) => RowState(log[i].post) = RowState(log[i].pre)

\* the number of elements of a line of the output: one more than its
\* delimiters, and none in a line that is the terminator alone
Elements(line) ==
    IF Len(line) = 1 THEN 0
    ELSE 1 + Cardinality({k \in 1..Len(line) : line[k] = ","})

\* the calls of write that wrote their row, and the line each wrote
RowWrites == {k \in 1..Len(writes) : writes[k].data}
LineOf(k) == writes[k].after[Len(writes[k].after)]

\* the first row was written before the k-th call of write, and the row of
\* the k-th call has another length
WrongLength(k) ==
    \E j \in RowWrites :
        /\ j < k
        /\ \A i \in RowWrites : j <= i
        /\ Len(writes[k].tup.cells) # Len(writes[j].tup.cells)

\* C24: for CSVTarget, after any sequence of write calls, every row
\* written to the output has the same number of elements as the first row
\* written; a write whose row has a different length raises TypeError,
\* writes nothing to the output and leaves count unchanged, and count
\* always equals the number of data rows written
C24_RowsOfOneLength ==
    target.state = "open" =>
        /\ \A j, k \in RowWrites : Elements(LineOf(j)) = Elements(LineOf(k))
        /\ \A k \in 1..Len(writes) :
               WrongLength(k) =>
                   /\ writes[k].exc.type = "TypeError"
                   /\ writes[k].after = writes[k].before
                   /\ writes[k].post.count = writes[k].pre.count
        /\ target.count = Cardinality(RowWrites)

\* the call c of the meter wrote a rendering to the stream
Renders(c) == c.after # c.before /\ c.post.last_output # << >>
UpdateRenders(c) == c.op = "update" /\ Renders(c)

\* the call c hides the meter, or shows it
Hides(c) == c.op \in {"hide", "__exit__"}
Shows(c) == c.op \in {"show", "__enter__"}

\* the i-th call is the last one before the j-th that rendered the meter
LastRender(i, j) ==
    /\ i < j
    /\ Renders(calls[i])
    /\ \A k \in (i + 1)..(j - 1) : ~Renders(calls[k])

\* between two renders caused by update() with no hide() or show() in
\* between, more than max_wait time units elapse
RendersApart ==
    \A i, j \in 1..Len(calls) :
        (/\ i < j
         /\ UpdateRenders(calls[i])
         /\ UpdateRenders(calls[j])
         /\ \A k \in (i + 1)..(j - 1) : ~Hides(calls[k]) /\ ~Shows(calls[k])) =>
            calls[j].now - calls[i].now > meter.max_wait

Nameless(c) == \A k \in 1..Len(Databases) : c.files[k] = ""

\* the handles after the call c has run alone from the handles h: each
\* database that is named is opened anew and the others are left
Alone(h, c) ==
    IF Nameless(c) THEN h
    ELSE [k \in 1..Len(Databases) |->
              IF c.files[k] # ""
              THEN [file |-> c.files[k],
                    flags |-> IF c.memcache THEN "MEMORY_CACHE" ELSE "0"]
              ELSE h[k]]

\* the handles before any call
Unopened == [k \in 1..Len(Databases) |-> NoHandle]

\* every call has returned or raised
Returned == \A t \in Callers : callers[t].pc = Len(Databases) + 1

\* C26: geoip.init_databases is thread-safe: when two calls run
\* concurrently with different arguments, the final values of the six
\* global database handles equal those produced by running the two calls
\* one after the other in some order (no mix of handles that no sequential
\* order could produce), and a call with no filename raises ValueError
\* without changing any handle
C26_InitDatabasesThreadSafe ==
    /\ Returned =>
           \/ handles = Alone(Alone(Unopened, callers["A"].args), callers["B"].args)
           \/ handles = Alone(Alone(Unopened, callers["B"].args), callers["A"].args)
    /\ \A t \in Callers :
           (Nameless(callers[t].args) /\ callers[t].pc > 0) =>
               /\ callers[t].exc.type = "ValueError"
               /\ callers[t].pc = Len(Databases) + 1

====
